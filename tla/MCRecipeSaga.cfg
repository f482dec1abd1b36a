SPECIFICATION FairSagaSpec
CONSTANTS
    Paths = {a}
    Bytes = {x, y, z}
    Absent = Absent
    Runs <- ThreeSteps
    DryRuns = {}
    RawWrites = TRUE
    Mixes = FALSE
    Formats = TRUE
    MaxOps = 1
    MaxFaults = 2
    MaxTorn = 1
    NSteps = 3
CHECK_DEADLOCK FALSE
INVARIANTS
    
    EveryStepCompensated
PROPERTIES
    SagaEnds
