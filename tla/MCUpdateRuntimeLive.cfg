SPECIFICATION FairSpec
CONSTANTS
    MaxVersion = 2
    MaxActivities = 2
PROPERTIES
    OperationEnds
    ChecksGoOn
