SPECIFICATION Spec
CONSTANTS
    Sources <- SomeSources
    MaxCommands = 5
    None = None
CHECK_DEADLOCK FALSE
INVARIANTS
    ListedIsInstalled
    SuccessHeals
    RestOfFileKept
