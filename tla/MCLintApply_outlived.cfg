SPECIFICATION Spec
CONSTANTS
    x = x
    y = y
    n = n
    w = w
    Page = {x, y, n, w}
    Title = {"s", "u"}
    TitleOf <- MCTitleOf
    Mentions <- MCMentions
    Drifted = {x, w}
    MaxDrifted = 1
    Wisdom = {w}
    Absent = {n}
    Earlier = {0, 1, 2}
    None = None
    MaxBody = 3
    MaxProposals = 2
    MaxMishaps = 0
INVARIANTS
    TitlesLive
