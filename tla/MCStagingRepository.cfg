CONSTANTS
    MaxVersion = 4
    Platforms = {"linux", "macos", "windows"}
SPECIFICATION Spec
INVARIANTS NothingHidden
PROPERTIES ApplicationIsKept StaleOnlyAfterFailedRemoval ImplementsStagedSlot
