SPECIFICATION Spec
CONSTANTS
    Counts = {1, 2}
    Geometries = {g1, g2}
    Torn = Torn
    Seeders = {s1, s2}
    Readers = {r1}
    Resetters = {t1}
    Drops = {FALSE}
    WritesFail = FALSE
INVARIANT
    ReadsVerify
