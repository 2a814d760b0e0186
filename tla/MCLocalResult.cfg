SPECIFICATION FairSpec
CONSTANTS
    p1 = p1
    p2 = p2
    r1 = r1
    x1 = x1
    x2 = x2
    c1 = c1
    o1 = o1
    RunState = RunState
    Writer = Writer
    Child = Child
    Nobody = Nobody
    Results = {r1}
    Readers = {x1, x2}
    Owners = {o1}
    Cleaners = {c1}
    Processes = {p1, p2}
    ProcessOf <- KernelAndHub
    MaxFaults = 3
CHECK_DEADLOCK FALSE
INVARIANTS
    OwnedResultExists
    ReaderKeepsFile
    LiveChildKeepsRow
    NoOrphanBytes
PROPERTY ResultSettles
