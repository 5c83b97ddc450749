CONSTANTS
    MaxWrites = 2
    Buffer = 1
    Pairs <- MCPairs
SPECIFICATION FairSpec
INVARIANT TypeOK
INVARIANT WritesShown
PROPERTY FollowsTable
CHECK_DEADLOCK FALSE
