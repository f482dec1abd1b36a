SPECIFICATION Spec
CONSTANTS
    Paths = {a, b}
    Bytes = {x, y, z}
    Absent = Absent
    Runs = {r1}
    DryRuns = {r1}
    RawWrites = TRUE
    Mixes = FALSE
    Formats = TRUE
    MaxOps = 3
    MaxFaults = 2
    MaxTorn = 1
SYMMETRY PathSymmetry
CHECK_DEADLOCK FALSE
INVARIANTS
    FailureLeavesNoTrace
    Recoverable
