SPECIFICATION FairSpec
CONSTANTS
    q1 = q1
    q2 = q2
    q3 = q3
    p1 = p1
    p2 = p2
    w1 = w1
    w2 = w2
    NoTask = NoTask
    Request = {q1, q2, q3}
    Replica = {p1, p2}
    ReplicaOf <- OneReplica
    Worker = {w1}
    Operations = {"start", "resume"}
    MaxReschedules = 1
    ResultBackend = FALSE
    Faults = {"failure"}
INVARIANT RunningNamesTask
PROPERTIES EveryRunEnds EndsAreAnnounced
CHECK_DEADLOCK FALSE
