SPECIFICATION Spec
CONSTANTS
    a1 = a1
    a2 = a2
    s1 = s1
    s2 = s2
    NoId = NoId
    Ids <- MCIds
    Alert <- MCAlert
    Prices <- MCPrices
    ApiSweeps <- MCApiSweeps
    TickSweeps = {tick}
    Users = {ann}
    Committed <- MCCommitted
    MaxSent = 2
SYMMETRY MCSymmetry
CONSTRAINT Unraced
INVARIANTS
    NothingLost
    NotifiedOnce
PROPERTIES
    MarksStay
