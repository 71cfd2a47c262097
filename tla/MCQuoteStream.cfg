CONSTANTS
    c1 = c1
    c2 = c2
    btc = btc
    eth = eth
    r1 = r1
    r2 = r2
    None = None
    Replica = {r1}
    Symbol = {btc, eth}
    Client = {c1, c2}
    Input <- MCInput
    minInterval = 2
    MaxFaults = 1
    MaxCloses = 2
SPECIFICATION FairSpec
INVARIANTS QTypeOK ListenersReleased UpdatesSpaced StreamAdvances ReadYourWrites
PROPERTY FeedConsumed
CHECK_DEADLOCK FALSE
