SPECIFICATION HKVSpec
CONSTANTS
    a = a
    b = b
    c = c
    None = None
    Names = {k1}
    Byte = {a, b, c}
    Data <- MCData
    Row <- MCRow
    Content <- MCContent
    ChunkSizes = {2}
    ChunkBytes = 2
    Ranges = {}
    Writers = {w1, w2}
    Readers = {r1}
    Requests = {x1, x2}
SYMMETRY Symmetry
INVARIANTS
    HitIsExact
    StoredIsServed
