CONSTANTS
    c1 = c1
    c2 = c2
    btc = btc
    eth = eth
    r1 = r1
    r2 = r2
    None = None
    Replica = {r1}
    Symbol = {btc, eth}
    Client = {c1, c2}
    Input <- OneQuote
    minInterval = 2
    MaxFaults = 0
    MaxCloses = 1
SPECIFICATION Spec
PROPERTY SubscriberServed
CHECK_DEADLOCK FALSE
