SPECIFICATION Spec
CONSTANTS
    a = a
    b = b
    p = p
    q = q
    Source = {a, b}
    Page = {p, q}
    Yields <- MCYields
    Legacy = {b}
    None = None
    MaxBody = 2
    MaxRuns = 3
    MaxMishaps = 1
INVARIANTS
    HalfWrittenHidden
    NoPageStranded
    SkipsOnlyFinished
