CONSTANTS
    Venue = {"binance", "coinbase", "ethereum", "kraken"}
    Deployments = {{"binance"}, {"coinbase"}, {"ethereum"}, {"kraken"}}
    BufferSize = 2
    MaxAttempts <- Unlimited
    AttemptCap = 1
    Frames <- NoFrames
    BatchSize = 1
    MaxPendingEvents = 1
    MaxFailures = 0
    regressionTolerance = 4
    SnapshotSize = 2
    MaxNumber = 4
    MaxEnvelopes = 3
    MaxLogs = 4
    MaxSessions = 2
    MaxRestarts <- OfKraken
SPECIFICATION ISpec
PROPERTIES FreshKeptUnlessStale GapMeansLossOfData LossReported
CHECK_DEADLOCK FALSE
