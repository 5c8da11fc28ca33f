SPECIFICATION Spec
CONSTANTS
    g1 = g1
    g2 = g2
    m1 = m1
    NoPrice = NoPrice
    GraphIds <- MCGraphIds
    ManualIds <- MCManualIds
    Dir <- MCDir
    Batches <- MCBatches
    Price <- MCPrice
    Refs <- MCRefs
    Patchers = {p1}
    Tickers = {t1, t2}
    MaxRows = 4
INVARIANTS
    SettledFromApproval
    PricesFromWorker
PROPERTIES
    LedgerSpec
