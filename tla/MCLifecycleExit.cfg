CONSTANTS
    MaxGeneration = 2
    AttachMayFail = FALSE
    NavigateMayFail = FALSE
SPECIFICATION Spec
INVARIANTS ExitReclaims
CHECK_DEADLOCK FALSE
