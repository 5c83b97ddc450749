CONSTANTS
    NCells = 2
    MaxActs = 2
    NItems = 1
    MaxRuns = 2
    MaxJobs = 2
    MaxReqs = 2
    MaxVisits = 2
SPECIFICATION FairSpec
PROPERTY WaitsEnd
CHECK_DEADLOCK FALSE
