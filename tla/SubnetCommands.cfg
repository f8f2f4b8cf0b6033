SPECIFICATION MCSpec
CONSTANTS
    n1 = n1
    n2 = n2
    n3 = n3
    h2 = h2
    h3 = h3
    Sentries = {n1, n2}
    Servers = {n3}
    HostnameOf <- Named
    Rows = {r1, r2}
    Workers = {w1, w2}
    CodeIds = {c1, c2}
    CodeNames = {x, y}
    LayoutIds = {l1, l2}
    Labels = {m, n}
    SegmentIds = {s1, s2}
    Ranges <- SharedRanges
    SegmentCodes <- TwoDigits
    Clerks = {w1, w2}
SYMMETRY Symmetry
CONSTRAINT Unraced
INVARIANTS
    NodesInStep
    StraightTreeMatches
