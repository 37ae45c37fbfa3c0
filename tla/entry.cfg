SPECIFICATION Spec
CONSTANTS
    Procs = {p0, p1, p2}
    Root = p0
CHECK_DEADLOCK FALSE
INVARIANTS
    GsBalanced
    OwnStacks
