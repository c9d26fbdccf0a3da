SPECIFICATION MCSpec
CONSTANTS
    Missing = Missing
    Data = {d1}
    Size <- MCSize
    MaxSize = 2
    Keys <- MCKeys
    k1 = k1
    k2 = k2
    k3 = k3
    w1 = w1
    w2 = w2
    Peers = {p1}
    Budget = 2
    Targets = {3}
    Writers <- MCWriters
    Readers = {}
    Spillers = {s1}
INVARIANTS
    TypeOK
    LocalAccounting
    LocalBounded
PROPERTY SpillTerminates
