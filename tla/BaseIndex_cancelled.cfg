SPECIFICATION Spec
CONSTANTS
    Doc = {plain, illustrated}
    Illustrated = {illustrated}
    MaxVersion = 2
    MaxRuns = 1
    MaxEdits = 0
    MaxCancels = 1
    MaxFaults = 0
    MaxCrashes = 0
INVARIANTS
    CancelStrandsNothing
