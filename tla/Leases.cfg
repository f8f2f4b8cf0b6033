SPECIFICATION Spec
CONSTANTS
    a1 = a1
    a2 = a2
    s1 = s1
    s2 = s2
    Addresses = {a1, a2}
    SubnetOf <- TwoSubnets
    Clients = {c1}
    MaxEpoch = 2
    Workers = {w1, w2}
    Unreachable = TRUE
    Filters = {"all", "ip", "normal"}
SYMMETRY Symmetry
INVARIANTS
    HiddenWasDeleted
PROPERTIES
    ComparedCopyKept
