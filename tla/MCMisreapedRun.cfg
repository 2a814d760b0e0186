SPECIFICATION Spec
CONSTANTS
    c1 = c1
    c2 = c2
    h1 = h1
    q1 = q1
    q2 = q2
    r1 = r1
    r2 = r2
    k1 = k1
    k2 = k2
    NoKernel = NoKernel
    NoRun = NoRun
    Canvases = {c1, c2}
    Kernels = {k1, k2}
    Hubs = {h1}
    Runs = {r1, r2}
    CanvasOf <- TwoCanvases
    Requests = {q1, q2}
    HubOf <- OneHub
    MaxPosts = 1
    MaxStale = 0
    MaxFaults = 0
CHECK_DEADLOCK FALSE
PROPERTY LiveRunIsSpared
