SPECIFICATION HSpec
CONSTANTS
    Missing = Missing
    Data = {d1}
    Size <- MCSize
    MaxSize = 0
    Keys = {k1}
    Peers = {p1}
    Budget = 0
    Targets = {1}
    Writers = {w1}
    Readers = {}
    Spillers = {s1}
PROPERTY DeletedStays
