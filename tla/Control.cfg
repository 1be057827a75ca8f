SPECIFICATION Spec
CONSTANTS
    btc = btc
    eth = eth
    Symbols = {btc, eth}
SYMMETRY Symmetry
INVARIANTS
    StateOnDisk
    OneConfigInForce
PROPERTIES
    SafetyPauseHolds
    PausesUnlessManaged
