SPECIFICATION FairSpec
CONSTANTS
    Task = {t1}
    MaxReports = 1
    MaxCancels = 3
    MaxFaults = 2
    MaxCrashes = 2
PROPERTIES
    CoroutineEnds
    Settles
