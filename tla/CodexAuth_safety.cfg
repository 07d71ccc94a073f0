SPECIFICATION Spec
CONSTANTS
    Caller = {c1, c2}
    None = None
    MaxTokens = 4
INVARIANTS
    NeverReused
    StoreUsable
