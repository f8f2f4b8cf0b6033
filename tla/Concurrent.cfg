SPECIFICATION ConcurrentSpec
CONSTANTS
    FirstIp = 1
    LastIp = 2
    Ids = {i1, i2}
    Clients = {c1, c2}
    Word = 8
    Workers = {w1, w2}
SYMMETRY Symmetry
INVARIANTS
    UnracedBooksExact
CONSTRAINT Unraced
