SPECIFICATION Spec
CONSTANTS
    btc = btc
    btcusdt = btcusdt
    eth = eth
    tsmc = tsmc
    Names <- MCNames
    Listed <- MCListed
    Base <- MCBase
    MaxPicks = 2
    MaxDepth = 2
    RecursionLimit = 40
INVARIANTS
    DegradedNotPromoted
CHECK_DEADLOCK FALSE
