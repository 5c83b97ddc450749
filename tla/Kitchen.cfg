CONSTANTS
    NCells = 2
    MaxActs = 2
    NItems = 2
    MaxRuns = 2
    MaxJobs = 2
    MaxReqs = 2
    MaxVisits = 2
SPECIFICATION Spec
INVARIANT TypeOK
INVARIANT TicksTrue
INVARIANT Announced
INVARIANT MathRight
INVARIANT SocketHonest
PROPERTY NothingLost
CHECK_DEADLOCK FALSE
