SPECIFICATION Spec
CONSTANTS
    Kinds = {"idle", "checking", "staged", "failed"}
    MaxSequence = 4
    Observers = {o1, o2, o3}
    MaxCalls = 2
    MaxChanges = 6
    Pages = {"bridge", "window", "startup"}
    o1 = o1
    o2 = o2
    o3 = o3
INVARIANTS
    SubscriptionFollowsObservers
    IndicatorShowsLatest
    WindowShowsLatest
    ButtonsComeBack
    EventsAreRendered
    FailureCanBeRetried
    EventsInOrder
CHECK_DEADLOCK FALSE
