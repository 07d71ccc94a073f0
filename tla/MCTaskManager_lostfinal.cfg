SPECIFICATION Spec
CONSTANTS
    Task = {t1}
    MaxReports = 1
    MaxCancels = 1
    MaxFaults = 0
    MaxCrashes = 0
INVARIANTS
    SucceededOwnsFinal
