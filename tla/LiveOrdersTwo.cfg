SPECIFICATION SteadySpec
CONSTANTS
    OrderId = {o1, o2}
    RowId = {r1, r2}
    Symbols = {BTC}
    Actors = {engine, ui}
    AutoTraders = {engine}
    None = None
SYMMETRY Alike
INVARIANTS
    TerminalRowsTruthful
    OneRowPerOrder
