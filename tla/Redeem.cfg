CONSTANTS
    None = None
    Members = {kid}
    Rewards = {w1}
    Adjustments = {a1}
    Requests = {r1, r2, r3}
    Costs <- OneOrTwo
    Deltas <- MinusTwo
    Amounts <- JustOne
    FulfillmentKinds <- BothKinds
    Ops <- AllOps
    MayFail = TRUE
    PriceOf <- MCPriceOf
SPECIFICATION Spec
SYMMETRY Symmetry
INVARIANT TypeOK
INVARIANT GrantLinked
INVARIANT SettledIsCharged
CHECK_DEADLOCK FALSE
