SPECIFICATION Spec
CONSTANTS
    g1 = g1
    g2 = g2
    m1 = m1
    NoPrice = NoPrice
    GraphIds = {}
    ManualIds <- MCManualIds
    Dir <- MCManualDir
    Batches = {}
    Price <- MCPrice
    Refs <- MCRefs
    Patchers = {p1}
    Tickers = {t1}
    MaxRows = 4
PROPERTIES
    SettlesOnlyApproved
