SPECIFICATION Spec
CONSTANTS
    Doc = {plain, illustrated}
    Illustrated = {illustrated}
    MaxVersion = 2
    MaxRuns = 2
    MaxEdits = 0
    MaxCancels = 0
    MaxFaults = 0
    MaxCrashes = 1
INVARIANTS
    ResubmitRecovers
