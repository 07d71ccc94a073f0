SPECIFICATION FollowFairSpec
CONSTANTS
    id = t1
    Limit = 2
    MaxPolls = 3
    MaxEvents = 6
INVARIANTS
    RenderedOnce
    OnlyFinalMissed
    ResultMatchesRow
PROPERTIES
    Delivered
    FollowEnds
