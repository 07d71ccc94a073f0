SPECIFICATION Spec
CONSTANTS
    Task = {t1}
    MaxReports = 1
    MaxCancels = 2
    MaxFaults = 0
    MaxCrashes = 0
INVARIANTS
    CancelledOwnsFinal
