CONSTANTS
    NoBar = NoBar
    MaxTime = 4
    MaxTrades = 3
    Log <- MCLog
    windowSize = 2
    maxOutOfOrderness = 1
    ReplayOutOfOrderness = 4
    backfillStart = 0
    backfillEnd = 4
SPECIFICATION Spec
INVARIANTS BarsExact ReplayAgrees PartsMerge
CHECK_DEADLOCK FALSE
