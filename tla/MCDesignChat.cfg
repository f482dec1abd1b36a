SPECIFICATION Spec
CONSTANTS
    Designs = {d1, d2}
    None = None
    MaxTurns = 5
    MaxSessions = 3
    MaxMessages = 10
SYMMETRY DesignSymmetry
CHECK_DEADLOCK FALSE
INVARIANTS
    SaveLagsOneReply
    DeliveredWasApproved
    DoneIsWritten
