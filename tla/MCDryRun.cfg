SPECIFICATION Spec
CONSTANTS
    Paths = {a, b}
    Bytes = {x, y, z}
    Absent = Absent
    MaxCalls = 4
SYMMETRY FileSymmetry
CHECK_DEADLOCK FALSE
INVARIANTS
    SameReads
    DryRunPredictsChangeset
    ReceiptMatchesDisk
