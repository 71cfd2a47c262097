CONSTANTS
    kraken = kraken
    coinbase = coinbase
    e1 = e1
    e2 = e2
    Venue = {kraken, coinbase}
    BufferSize = 1
    MaxAttempts <- MCMaxAttempts
    AttemptCap = 2
    Frames <- MCFrames
SPECIFICATION RSpec
INVARIANT RTypeOK
PROPERTIES FrameDelivered CancelStopsRunners Reconnects
CHECK_DEADLOCK FALSE
