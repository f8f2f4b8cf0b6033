SPECIFICATION NetworksSpec
CONSTANTS
    MaxId = 3
    Nodes = {n1, n2}
    Networks = {g1, g2}
    Workers = {w1, w2}
    HA = TRUE
SYMMETRY Symmetry
INVARIANTS
    UnracedNetworks
CONSTRAINT Unraced
