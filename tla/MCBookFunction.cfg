CONSTANTS
    None = None
    Price <- FewPrices
    Size = {1}
    OpeningBook <- NarrowBook
    maxDepth = 1
    MaxLog = 4
    MaxLag = 1
    MaxFaults = 1
SPECIFICATION BSpec
INVARIANTS BTypeOK BookFollowsVenue CrossedMeansMissed NeverMute NoRepeat
PROPERTY BookServed
CHECK_DEADLOCK FALSE
