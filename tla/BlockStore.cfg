SPECIFICATION Spec
CONSTANTS
    Keys = {k1, k2, k3, k4}
    Owners = {a}
    Handlers = {h1, h2}
    MaxSize = 2
    Reserve = 2
    MinFree = 3
    Readings <- MCReadings
SYMMETRY Symmetry
INVARIANTS
    TypeOK
    Accounting
    OwnersMatchBlocks
    OvershootBounded
