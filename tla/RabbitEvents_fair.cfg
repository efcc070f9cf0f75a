SPECIFICATION FairSpec
CONSTANTS
    Appender = {a1}
    Reader = {r1, r2}
    Nobody = Nobody
    Faults = {"timeout", "connection", "unreachable", "leave"}
    QueueLimit = 1
    MaxEvents = 1
    MaxProducers = 2
CHECK_DEADLOCK FALSE
PROPERTIES
    FeedSpec
    AppendsEnd
    StreamsCatchUp
