CONSTANTS
    MaxGeneration = 3
    AttachMayFail = FALSE
    NavigateMayFail = FALSE
SPECIFICATION FairSpec
PROPERTIES ProlongedOffersRetry
CHECK_DEADLOCK FALSE
