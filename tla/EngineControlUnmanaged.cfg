SPECIFICATION Spec
CONSTANTS
    Symbols = {btc, eth}
    btc = btc
    eth = eth
INVARIANT PositionsManaged
