CONSTANTS
    c1 = c1
    c2 = c2
    Chores = {c1, c2}
    Weights = {1, 2, 5}
    Paces <- MCPaces
    Allowances = {1, 7, 50, 500}
    Tabs = {1, 2}
    MaxPresses = 4
    MaxRounds = 6
    MaxNotes = 2
    MaxPins = 5
    MaxSets = 4
    MaxUses = 4
    MaxVersions = 2
SPECIFICATION KidSpec
SYMMETRY Symmetry
INVARIANT TypeOK
INVARIANT WeekAddsUp
INVARIANT TimersHonest
INVARIANT RecordTrue
INVARIANT BrowserKept
INVARIANT SavedIsStored
CHECK_DEADLOCK FALSE
