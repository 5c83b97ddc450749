CONSTANTS
    Limits <- MCLimits
    MaxCodes = 2
    MaxRequests = 1
    MaxSaves = 2
    MaxActs = 4
    MaxClicks = 4
    MaxCards = 1
SPECIFICATION Spec
INVARIANT TypeOK
INVARIANT RosterHonest
INVARIANT FormHonest
INVARIANT ViewsExact
INVARIANT CardsHonest
PROPERTY DoorKept
PROPERTY NothingLost
CHECK_DEADLOCK FALSE
