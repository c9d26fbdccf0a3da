SPECIFICATION FairSpec
CONSTANTS
    Counts = {1, 2}
    Geometries = {g1}
    Torn = Torn
    Seeders = {s1, s2}
    Readers = {r1, r2}
    Resetters = {t1}
    Drops = {FALSE}
    WritesFail = FALSE
INVARIANTS
    TypeOK
    ColdCopy
    ReadsVerify
    ReadsServed
PROPERTY
    SeedingEnds
