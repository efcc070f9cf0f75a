SPECIFICATION Spec
CONSTANTS
    Appender = {a1, a2}
    Reader = {r1}
    Nobody = Nobody
    Faults = {"timeout", "connection", "late"}
    QueueLimit = 1
    MaxEvents = 2
    MaxProducers = 2
SYMMETRY Tasks
CHECK_DEADLOCK FALSE
INVARIANTS
    TypeOK
    ToldInOrder
    
