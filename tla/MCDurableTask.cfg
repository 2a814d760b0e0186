SPECIFICATION Spec
CONSTANTS
    t1 = t1
    o1 = o1
    o2 = o2
    r1 = r1
    r2 = r2
    NoOwner = NoOwner
    NoRetry = NoRetry
    Tasks = {t1}
    Owners = {o1, o2}
    RetryIds = {r1, r2}
    MaxAttempts = 3
    FencedTasks = {}
    StaleFinal = {t1}
    Unreadable = {t1}
SYMMETRY Symmetry
CHECK_DEADLOCK FALSE
INVARIANTS
    OneOpenAttempt
    InboxAnnouncesOutcome
PROPERTIES
    SupersededAttemptIsFrozen
    CancelSticks
    KeepsPromise
