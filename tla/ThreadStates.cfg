SPECIFICATION Spec
CONSTANTS
    Actor = {a1, a2, a3}
    Process = {p1, p2}
    Kinds = {"create", "update", "rename", "delete", "run"}
    Faults = {"connection"}
    Limit = 6
    Nothing = Nothing
SYMMETRY ActorSymmetry
CHECK_DEADLOCK FALSE
INVARIANTS
    HeadIsNewest
    
PROPERTIES
    NoStateLost
    MetadataSticks
