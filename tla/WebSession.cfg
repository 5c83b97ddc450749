CONSTANTS
    MaxAttempts = 2
    MaxHops = 2
    PinMin = 2
    PinMax = 2
SPECIFICATION FairSpec
INVARIANT TypeOK
INVARIANT IdentityMatchesToken
INVARIANT NoRedirectLoop
PROPERTY AttemptUsedOnce
PROPERTY SpinnersEnd
CHECK_DEADLOCK FALSE
