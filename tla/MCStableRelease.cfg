SPECIFICATION Spec
CONSTANTS
    r1 = r1
    r2 = r2
    m0 = m0
    Runs = {r1, r2}
    Initial = m0
    Version <- VersionDef
    RequiredTargets = {"windows", "linux"}
    Targets = {"windows", "linux", "macos"}
    MaxAttempts = 2
INVARIANTS
    StableFollowsSmoke
    EvidenceIsTrue
    RunnerIsRestored
CHECK_DEADLOCK FALSE
