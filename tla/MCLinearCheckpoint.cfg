SPECIFICATION FairSpec
CONSTANTS
    r1 = r1
    Task = Task
    RetryIds = {r1}
    MaxAttempts = 2
    NoOwner = NoOwner
    NoRetry = NoRetry
    MaxFaults = 3
CHECK_DEADLOCK FALSE
INVARIANTS
    AuthorityAgrees
    ReaderKeepsCheckpoint
PROPERTIES
    EvidenceIsFinal
    LeftoversGo
