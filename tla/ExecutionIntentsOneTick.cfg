SPECIFICATION FairSpec
CONSTANTS
    g1 = g1
    g2 = g2
    m1 = m1
    NoPrice = NoPrice
    GraphIds <- MCTwoGraphIds
    ManualIds = {}
    Dir <- MCTwoDir
    Batches <- MCTwoBatches
    Price <- MCPrice
    Refs <- MCLongRefs
    Patchers = {p1}
    Tickers = {t1}
    MaxRows = 5
INVARIANTS
    OneSettlementPerApproval
PROPERTIES
    ApprovalsScanned
