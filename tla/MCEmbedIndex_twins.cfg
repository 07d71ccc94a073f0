SPECIFICATION Spec
CONSTANTS
    f = f
    g = g
    h = h
    p = p
    x = x
    y = y
    i = i
    j = j
    File = {f, g, h}
    Key <- MCKey
    Page = {p}
    MaxBody = 2
    Cut <- MCCut
    Identity = {i, j}
    None = None
    Batch = 2
    Retries = 1
    MaxRuns = 1
    MaxEdits = 1
    MaxMishaps = 0
INVARIANTS
    IngestEnds
CHECK_DEADLOCK FALSE
