CONSTANTS
    btc = btc
    eth = eth
    kraken = kraken
    coinbase = coinbase
    Venue = {kraken}
    Symbol = {btc, eth}
    Kind = {"trade"}
    ConnectionScopedVenues = {}
    Encoders = {"trade"}
    Topics <- MCTopics
    Partition = {0, 1}
    PartitionOf <- PartitionEach
    BatchSize = 2
    MaxPendingEvents = 3
    DropOnGap = FALSE
    ResyncOnGap = FALSE
    WriterBatchSize = 2
    BufferSize = 1
    Sequence <- Unsequenced
    Sound = {TRUE}
    MaxEvents = 3
    MaxFailures = 2
    regressionTolerance = 2
SPECIFICATION Spec
INVARIANT PartitionOrder
CHECK_DEADLOCK FALSE
