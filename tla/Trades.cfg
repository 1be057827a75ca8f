SPECIFICATION MCSpec
CONSTANTS
    Parts = {"paper", "live"}
    Symbols = {BTC, ETH}
    MaxTrades = 2
    MaxImports = 1
    MaxSlips = 1
    Pairs = {1, 2}
    PaperTrades <- MCPaper
    Scopes <- MCScopes
    Prices = {1, 2, 4}
    Budget = 8
    BuyFee = 4
    SellFee = 1
    Cash = 16
    MaxOrder = 8
    MinCash = 0
    Tolerance = 25
    LossLimit = 3
    BuyBelow = 2
    SellAbove = 3
    StopLoss = 50
    TakeProfit = 100
    MaxDay = 2
SYMMETRY Alike
INVARIANTS
    TradesWithinLimit
    SalesLoggedOnce
    BooksBalance
    EntryRateIsCost
    PageAgrees
PROPERTIES
    RestBeforeReentry
    PastDaysStand
