CONSTANTS
    btc = btc
    eth = eth
    kraken = kraken
    coinbase = coinbase
    Venue = {kraken, coinbase}
    Symbol = {btc, eth}
    Kind = {"trade"}
    ConnectionScopedVenues = {coinbase}
    Encoders = {"trade"}
    Topics <- MCTopics
    Partition = {0, 1}
    PartitionOf <- PartitionEach
    BatchSize = 2
    MaxPendingEvents = 3
    DropOnGap = TRUE
    ResyncOnGap = FALSE
    WriterBatchSize = 2
    BufferSize = 1
    Sequence <- SmallSequenceOrNone
    Sound = {TRUE, FALSE}
    MaxEvents = 4
    MaxFailures = 3
    regressionTolerance = 1
SPECIFICATION MCSpec
INVARIANTS TypeOK Accounting RetentionBounded LossIsCounted BatchIsNewest RetryRestoresOrder
INVARIANT BaselineIsLatest
PROPERTIES ContiguousAccepted EveryLossReported DuplicatesDropped BatchDrains CancelStops
CHECK_DEADLOCK FALSE
