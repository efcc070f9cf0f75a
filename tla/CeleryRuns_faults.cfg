SPECIFICATION Spec
CONSTANTS
    q1 = q1
    q2 = q2
    q3 = q3
    p1 = p1
    p2 = p2
    w1 = w1
    w2 = w2
    NoTask = NoTask
    Request = {q1, q2}
    Replica = {p1, p2}
    ReplicaOf <- TwoReplicas
    Worker = {w1, w2}
    Operations = {"start", "stream", "resume", "respond", "cancel"}
    MaxReschedules = 1
    ResultBackend = FALSE
    Faults = {"worker_crash", "api_crash", "shutdown", "enqueue", "abandon", "unavailable", "failure", "transient", "store"}
SYMMETRY Symmetry
INVARIANTS TypeOK SuccessHasFinalState
CHECK_DEADLOCK FALSE
