SPECIFICATION Spec
CONSTANTS
    Ip <- Addresses
    Clients = {c1, c2}
    Limit = 4
    ByteBits = 2
    Masks <- MaskLengths
    Generated = 16
    MaxRows = 3
    MaxItems = 2
    MaxLeases = 1
SYMMETRY Symmetry
CONSTRAINT NoFurtherDrift
INVARIANTS
    UnskewedBooksExact
    RangesApart
    GeneratedHasNoRows
    ExportedSubnet6Imports
PROPERTY
    LeasedRowIsKept
CHECK_DEADLOCK FALSE
