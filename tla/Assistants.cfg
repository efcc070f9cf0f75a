SPECIFICATION Spec
CONSTANTS
    Actor = {a1, a2, a3}
    Process = {p1, p2}
    Kinds = {"create", "put", "skill", "delete", "run"}
    Stores = {"filesystem", "postgres"}
    Nobody = Nobody
SYMMETRY ActorSymmetry
CHECK_DEADLOCK FALSE
INVARIANTS
    AgentIsCurrent
    SkillsHaveFiles
PROPERTIES
    EditsStick
