SPECIFICATION HFairSpec
CONSTANTS
    Emitters = {e1, e2}
    Clients = {c1, c2}
    QueueSize <- MCQueueSize
    c1 = c1
    c2 = c2
    MaxEvents = 1
    None = None
INVARIANTS
    TypeOK
    InOrder
    NotLost
PROPERTIES
    EmitReturns
    GoneUnsubscribed
CHECK_DEADLOCK FALSE
