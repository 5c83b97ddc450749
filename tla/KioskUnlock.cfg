CONSTANTS
    MaxAttempts = 1
    MaxHops = 2
    PinMin = 1
    PinMax = 1
SPECIFICATION Spec
INVARIANT UnlockOpensHome
CHECK_DEADLOCK FALSE
