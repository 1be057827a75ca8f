SPECIFICATION NumberedSpec
CONSTANTS
    OrderId = {1, 2}
    RowId = {1, 2}
    Symbols = {1, 2}
    Actors = {engine}
    AutoTraders = {engine}
    None = None
INVARIANTS
    AutoOrderNeedsFreeSymbol
PROPERTIES
    LifecycleSpec
    ClosedOrdersSettle
