SPECIFICATION Spec
CONSTANTS
    d = d
    e = e
    None = None
    Doc = {d, e}
    Chunk = {1, 2, 3, 4}
    First <- Indexed
    Config <- Silenced
    PerLeg = 2
    MaxPromoted = 2
    MaxWrites = 0
CHECK_DEADLOCK FALSE
INVARIANTS
    DisabledLegHarmless
