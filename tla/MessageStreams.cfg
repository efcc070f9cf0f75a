SPECIFICATION Spec
CONSTANTS
    Namespace = {main, sub}
    Client = {c1}
    Modes = {"run_modes", "messages"}
    MaxEvents = 6
    MaxRuns = 2
    MaxBreaks = 1
SYMMETRY Namespaces
CHECK_DEADLOCK FALSE
INVARIANTS
    
    
    TextOnce
