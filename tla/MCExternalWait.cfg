SPECIFICATION Spec
CONSTANTS
    w1 = w1
    w2 = w2
    Nobody = Nobody
    Workers = {w1, w2}
    MaxPolls = 2
    MaxAttempts = 2
    MaxFaults = 1
CHECK_DEADLOCK FALSE
INVARIANTS
    CancelledLeavesNothing
    HandleIsTheAttempts
PROPERTIES
    TerminalIsFinal
    SettlesUnlessDisplaced
