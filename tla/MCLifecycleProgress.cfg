CONSTANTS
    MaxGeneration = 4
    AttachMayFail = TRUE
    NavigateMayFail = FALSE
SPECIFICATION FairSpec
PROPERTIES ShutdownCompletes RetryCompletes StartingResolves ExitIsReported FailureShowsStartupPage
CHECK_DEADLOCK FALSE
