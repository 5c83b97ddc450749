CONSTANTS
    None = None
    Members = {kid}
    Rewards = {w1}
    Adjustments = {}
    Requests = {r1, r2, r3, r4}
    Costs <- JustOne
    Deltas <- NoDeltas
    Amounts <- JustOne
    FulfillmentKinds <- BothKinds
    Ops <- AllOps
    MayFail = FALSE
    PriceOf <- MCPriceOf
SPECIFICATION OneAtATimeSpec
SYMMETRY Symmetry
PROPERTY ImplementsLifecycle
CHECK_DEADLOCK FALSE
