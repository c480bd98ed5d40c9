SPECIFICATION OneProcessSpec
CONSTANTS
    MaxVersion = 3
    MaxActivities = 5
INVARIANTS
    ActiveOperationIsReal
CHECK_DEADLOCK FALSE
