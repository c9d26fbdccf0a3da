SPECIFICATION HSpec
CONSTANTS
    Missing = Missing
    Data = {d1, d2}
    Size <- MCSize
    MaxSize = 0
    Keys = {k1}
    Peers = {p1, p2}
    Budget = 0
    Targets = {1}
    Writers = {w1, w2}
    Readers = {r1}
    Spillers = {s1, s2}
SYMMETRY Symmetry
INVARIANTS
    LocalIndexAgree
    GetReturnsCurrent
