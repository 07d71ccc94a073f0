SPECIFICATION Spec
CONSTANTS
    Caller = {c1, c2}
    None = None
    MaxTokens = 2
INVARIANTS
    LogoutHolds
