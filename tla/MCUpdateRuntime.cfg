SPECIFICATION Spec
CONSTANTS
    MaxVersion = 3
    MaxActivities = 3
INVARIANTS
    BusyPhaseIsTrue
    ActiveOperationHasTask
    ShownStagedIsHeld
PROPERTIES
    NoDowngrade
