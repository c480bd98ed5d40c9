SPECIFICATION PackagedCliSpec
CONSTANTS
    p1 = p1
    p2 = p2
    p3 = p3
    Processes = {p1, p2, p3}
    MaxDeaths = 2
    entry = entry
    worker = worker
    asset = asset
    Parts = {entry, worker, asset}
    Checked = {entry}
    v1 = v1
    v2 = v2
    Versions = {v1, v2}
    Missing = Missing
    retry = retry
    shutdown = shutdown
    monitor = monitor
    Stoppers = {retry, shutdown}
    Observers = {monitor}
    Nobody = Nobody
INVARIANTS
    OneHolderUnlessAstray
    PageIsOwn
    StoppedBeforeRemoval
    ShippedFitsInputs
    ReasonIsTrue
PROPERTIES
    NodeStaysInstalled
    ImplementsOwnedCli
CONSTRAINT OnTrack
SYMMETRY Symmetry
CHECK_DEADLOCK FALSE
