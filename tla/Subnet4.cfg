SPECIFICATION Spec
CONSTANTS
    FirstIp = 1
    LastIp = 4
    Ids = {i1, i2}
    Clients = {c1, c2}
    Word = 16
    MaxLeases = 1
SYMMETRY Symmetry
INVARIANTS
    TypeOK
    PoolsDisjoint
    ReservedExclusive
    PoolCapacityExact
    SubnetCapacityExact
    LookupsMatchBooks
PROPERTY
    ImplementsAddressPlan
