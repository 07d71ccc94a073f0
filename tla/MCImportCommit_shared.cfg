SPECIFICATION Spec
CONSTANTS
    a = a
    b = b
    s = s
    x = x
    Path <- MCPath
    Packages <- SharedAsset
    MaxImports = 1
    MaxFaults = 1
    MaxCrashes = 0
INVARIANTS
    SharedFileAvailable
