SPECIFICATION Spec
CONSTANTS
    a = a
    b = b
    s = s
    x = x
    Path <- MCPath
    Packages <- SharedAsset
    MaxImports = 2
    MaxFaults = 2
    MaxCrashes = 1
INVARIANTS
    PackageAtomic
    OriginalsSurvive
    CommittedInPlace
