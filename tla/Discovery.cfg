SPECIFICATION FairSpec
CONSTANTS
    a = a
    b = b
    c = c
    Hosts = {a, b, c}
    Seeds <- MCSeeds
    Heard = {b}
    Flaky = {b}
    OfflineAfter = 8
    ProbeInterval = 2
    ProbeTimeout = 1
    ProbeOps = 2
    MaxAge = 27
INVARIANTS
    PeersTyped
    NoTwins
    ProbedInTime
PROPERTIES
    KnownStays
    SeedsSettle
