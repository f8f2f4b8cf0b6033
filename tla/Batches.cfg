SPECIFICATION BatchSpec
CONSTANTS
    FirstIp = 1
    LastIp = 3
    Ids = {i1, i2, i3}
    Clients = {c1, c2, c3}
    Word = 8
    MaxLeases = 0
SYMMETRY Symmetry
INVARIANTS
    BatchesMatchSingles
    ExportedSubnetImports
    FilesReturnSettings
CONSTRAINT Exact
