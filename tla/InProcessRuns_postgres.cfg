SPECIFICATION Spec
CONSTANTS
    Request = {q1, q2}
    Operations = {"start", "stream", "resume", "respond", "cancel"}
    Stores = {"memory", "postgres"}
    Modes = {"fixture", "research", "auto"}
    Faults = {"abandon", "failure", "unavailable", "broken", "store"}
    Nothing = Nothing
SYMMETRY RequestSymmetry
CHECK_DEADLOCK FALSE
INVARIANTS
    SuccessIsBacked
