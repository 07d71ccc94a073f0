SPECIFICATION Spec
CONSTANTS
    Task = {t1, t2}
    MaxReports = 1
    MaxCancels = 2
    MaxFaults = 1
    MaxCrashes = 1
SYMMETRY Symmetry
INVARIANTS
    TapeShape
    FinalMatchesRow
    CancelArmReads
    OrphansReaped
PROPERTIES
    TerminalIsFinal
    ImplementsContract
