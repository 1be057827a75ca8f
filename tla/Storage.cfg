SPECIFICATION MCSpec
CONSTANTS
    MaxSaves = 4
    Retries = 2
    Engine = engine
    Keepers = {engine, page}
    Windows = {1, 2}
    BackupDays = 1
    None = None
    MaxDay = 4
    MaxRows = 2
    Scopes <- StorageScopes
    Cash = 0
    Orders = {1, 2}
    BuyOrders = {1}
    Pairs = {1, 2}
    SymbolOf <- OneSymbol
    Extents <- ReconciliationExtents
INVARIANTS
    LoadsLastSave
    LoadsMainAtLeast
    NothingLost
    DeletedIsEmpty
    OkMeansTracked
PROPERTIES
    LoadsGoForward
    SavesEnd
    RecentRowsKept
    OldRowsGo
    UntrackedReported
