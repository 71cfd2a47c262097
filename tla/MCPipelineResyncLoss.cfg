CONSTANTS
    btc = btc
    eth = eth
    kraken = kraken
    coinbase = coinbase
    Venue = {coinbase}
    Symbol = {btc}
    Kind = {"trade"}
    ConnectionScopedVenues = {coinbase}
    Encoders = {"trade"}
    Topics <- MCTopics
    Partition = {0, 1}
    PartitionOf <- PartitionEach
    BatchSize = 2
    MaxPendingEvents = 3
    DropOnGap = FALSE
    ResyncOnGap = TRUE
    WriterBatchSize = 2
    BufferSize = 1
    Sequence <- TwoGapSequence
    Sound = {TRUE}
    MaxEvents = 3
    MaxFailures = 0
    regressionTolerance = 4
SPECIFICATION Spec
PROPERTY EveryLossReported
CHECK_DEADLOCK FALSE
