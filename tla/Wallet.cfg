CONSTANTS
    kid = kid
    parent = parent
    c1 = c1
    c2 = c2
    d1 = d1
    d2 = d2
    t1 = t1
    None = None
    Members <- MCMembers
    Admins <- MCAdmins
    Chores = {c1}
    Dates = {d1}
    Week = {d1}
    Tasks = {t1}
    Requests = {r1, r2, r3}
    ChoreMember <- MCChoreMember
    TaskMember <- MCTaskMember
    TaskPayout <- MCTaskPayout
    Settings <- AllSettings
    Allowances <- OneAllowance
    Amounts <- PlusMinusOne
    Ops <- AllOps
    MayFail = TRUE
    PayoutCents <- MCPayoutCents
    BonusCents <- MCBonusCents
SPECIFICATION Spec
CONSTRAINT Scenario
SYMMETRY Symmetry
INVARIANT TypeOK
INVARIANT BalanceIsPosted
INVARIANT EarnedOncePerDay
INVARIANT TaskPaidOnce
PROPERTY ClosedStays
PROPERTY ImplementsAtomicLedger
CHECK_DEADLOCK FALSE
