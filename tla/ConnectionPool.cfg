SPECIFICATION FairSpec
CONSTANTS
    Callers = {t1, t2}
    Data = {d1, d2}
    Missing = Missing
    Conns = {c1, c2}
    Prompt = TRUE
    Nobody = Nobody
INVARIANTS
    TypeOK
    SocketClean
PROPERTIES
    CallsImplemented
    LockReleased
