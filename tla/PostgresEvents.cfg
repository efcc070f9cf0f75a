SPECIFICATION Spec
CONSTANTS
    a1 = a1
    a2 = a2
    a3 = a3
    p1 = p1
    p2 = p2
    r1 = r1
    Appender = {a1, a2, a3}
    Process = {p1, p2}
    ProcessOf <- TwoProcesses
    Reader = {r1}
    MaxAttempts = 2
    MaxCalls = 4
INVARIANTS TypeOK GivesUpOnlyUnderContention
PROPERTIES LogSpec FeedSpec
CHECK_DEADLOCK FALSE
