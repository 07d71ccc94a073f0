SPECIFICATION Spec
CONSTANTS
    Doc = {plain, illustrated}
    Illustrated = {illustrated}
    MaxVersion = 2
    MaxRuns = 3
    MaxEdits = 1
    MaxCancels = 2
    MaxFaults = 2
    MaxCrashes = 1
INVARIANTS
    IngestIndexes
    OneFailureHides
    NoStrandedRow
