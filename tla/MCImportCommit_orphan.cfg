SPECIFICATION Spec
CONSTANTS
    a = a
    b = b
    s = s
    x = x
    Path <- MCPath
    Packages <- SharedAsset
    MaxImports = 1
    MaxFaults = 0
    MaxCrashes = 1
INVARIANTS
    OrphanStagingUncommitted
