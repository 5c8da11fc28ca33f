SPECIFICATION Spec
CONSTANTS
    slash = slash
    dash = dash
    nvda = nvda
    NoQuote = NoQuote
    Names <- MCNames
    Canon <- MCCanon
    Quotes <- MCQuotes
    Reports <- MCReports
    Window = 2
    Crypto <- MCCrypto
    Placeholders <- MCPlaceholders
    MaxDay = 3
    MaxRows = 3
    MaxFaults = 1
INVARIANTS
    OneOpenPerAsset
    ResultsAgree
    PreviousShowsOpen
PROPERTIES
    ClosedIsKept
