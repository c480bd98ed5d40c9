CONSTANTS
    MaxGeneration = 4
    AttachMayFail = FALSE
    NavigateMayFail = TRUE
SPECIFICATION Spec
INVARIANTS SingleHost LiveTreeHasOwner FailedIsReclaimed ReadyShowsCurrentHost SomeoneIsResponsible OneRetryAtATime OrderlyExitReclaims
PROPERTIES ImplementsOneHost
CHECK_DEADLOCK FALSE
