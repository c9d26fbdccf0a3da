SPECIFICATION MCSpec
CONSTANTS
    a = a
    b = b
    c = c
    d = d
    None = None
    Names = {n}
    Byte = {a, b, c, d}
    Data <- MCData
    Row <- MCRow
    ChunkSizes = {3}
    Ranges <- MCRanges
    Writers = {w1, w2}
    Readers = {r1}
    Requests = {x1}
SYMMETRY Symmetry
INVARIANTS
    TypeOK
    ReadExact
    ReadServed
    DeleteRemoves
