SPECIFICATION Spec
CONSTANTS
    c1 = c1
    c2 = c2
    h1 = h1
    q1 = q1
    q2 = q2
    r1 = r1
    r2 = r2
    k1 = k1
    NoKernel = NoKernel
    NoRun = NoRun
    Canvases = {c1}
    Kernels = {k1}
    Hubs = {h1}
    Runs = {r1}
    CanvasOf <- OneCanvas
    Requests = {q1}
    HubOf <- OneHub
    MaxPosts = 2
    MaxStale = 0
    MaxFaults = 1
CHECK_DEADLOCK FALSE
INVARIANT SingleExecution
