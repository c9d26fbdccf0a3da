SPECIFICATION HFairSpec
CONSTANTS
    w1 = w1
    w2 = w2
    Writers = {t2}
    Deleters = {t1}
    Spillers = {t1}
    Workers <- MCWorkers
    Keys = {k1, k2}
    Mine = {k1}
    Theirs = {k1, k2}
    MaxSize = 1
    Lengths = {1}
    Reserve <- MCReserve
    Cost <- MCCost
    Unsteady <- MCUnsteady
    MaxPending = 1
INVARIANTS
    TypeOK
    IndexedHeld
    HeldIndexed
    
PROPERTY
    EstimatesSettle
