SPECIFICATION Spec
CONSTANTS
    p1 = p1
    p2 = p2
    p3 = p3
    Processes = {p1, p2, p3}
    MaxDeaths = 1
INVARIANTS
    OneHolder
CONSTRAINT OwnersKeepUp
SYMMETRY Symmetry
CHECK_DEADLOCK FALSE
