SPECIFICATION FairSpec
CONSTANTS
    r1 = r1
    r2 = r2
    q1 = q1
    c1 = c1
    c2 = c2
    None = None
    Runs = {r1, r2}
    FullRuns = {r2}
    Readers = {q1}
    Cleaners = {c1, c2}
    MaxDeletes = 2
    MaxFaults = 1
CHECK_DEADLOCK FALSE
INVARIANTS
    OwnedIsServed
    ReaderKeepsObjects
    MarkerMeansWhole
    DeletedIsEmpty
PROPERTY AttemptSettles
