SPECIFICATION FairSpec
CONSTANTS
    btc = btc
    btcusdt = btcusdt
    eth = eth
    tsmc = tsmc
    Names <- MCNames
    Listed <- MCListed
    Base <- MCBase
    MaxPicks = 2
    MaxDepth = 2
    RecursionLimit = 40
INVARIANTS
    StepsBounded
    IntentsAreLastPick
    IntentsWereReviewed
PROPERTIES
    GraphEnds
CHECK_DEADLOCK FALSE
