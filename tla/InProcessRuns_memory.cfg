SPECIFICATION FairSpec
CONSTANTS
    Request = {q1, q2, q3}
    Operations = {"start", "stream", "resume", "respond", "cancel"}
    Stores = {"memory"}
    Modes = {"fixture", "auto"}
    Faults = {"abandon", "failure", "unavailable"}
    Nothing = Nothing
CHECK_DEADLOCK FALSE
INVARIANTS
    TypeOK
    OneActiveRun
    NoDoubleExecution
    AttachedWhileLive
    SuccessIsBacked
    EndIsAnnounced
PROPERTIES
    EndIsFinal
    RunsEnd
