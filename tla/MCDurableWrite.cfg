SPECIFICATION FairSpec
CONSTANTS
    t1 = t1
    t2 = t2
    t3 = t3
    h1 = h1
    h2 = h2
    w1 = w1
    w2 = w2
    r1 = r1
    NoOwner = NoOwner
    NoRetry = NoRetry
    Outside = Outside
    Tasks = {t1, t2, t3}
    RetryIds = {r1}
    MaxAttempts = 2
    FencedTasks = {t1}
    StaleFinal = {t1}
    Workers = {w1, w2}
    Hubs = {h1, h2}
    HubOf <- TwoHubs
    RunnerTasks = {t2}
    Unreadable = {t2, t3}
    MaxSubmitted = 1
    MaxOutside = 1
    MaxFaults = 2
    Faults = {"crash", "response", "read"}
CHECK_DEADLOCK FALSE
INVARIANTS
    RevisionsFormAChain
    FencedNeverMisreported
    OneRevisionPerTask
PROPERTIES
    UsesLedger
    EveryTaskSettles
    CommittedIsReported
