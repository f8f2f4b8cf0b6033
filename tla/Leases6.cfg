SPECIFICATION Spec
CONSTANTS
    x4 = x4
    x6 = x6
    p6 = p6
    net4 = net4
    net6 = net6
    Addresses = {x4, x6, p6}
    KindOf <- Kinds
    SubnetOf <- TwoStacks
    Clients = {c1, c2}
    MaxEpoch = 2
    MaxRequests = 3
    Workers = {w1, w2}
    Unreachable = TRUE
SYMMETRY Symmetry
INVARIANTS
    HiddenWasDeleted6
    ConvertedWasLeased
    NodesHaveConverted
CHECK_DEADLOCK FALSE
