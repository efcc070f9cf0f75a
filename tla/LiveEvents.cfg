SPECIFICATION FairSpec
CONSTANTS
    s1 = s1
    k1 = k1
    j1 = j1
    w1 = w1
    Stream = {s1}
    Socket = {k1}
    Joiner = {j1}
    Waiter = {w1}
    Together <- Groups
    HistoryLimit = 2
    QueueLimit = 2
    MaxEvents = 3
CHECK_DEADLOCK FALSE
INVARIANTS TypeOK 
PROPERTIES FeedSpec StreamsEnd JoinReturns
