CONSTANTS
    kid = kid
    parent = parent
    c1 = c1
    c2 = c2
    d1 = d1
    d2 = d2
    t1 = t1
    None = None
    Members <- MCMembers
    Admins <- MCAdmins
    Chores = {c1}
    Dates = {d1}
    Week = {d1}
    Tasks = {}
    Requests = {r1, r2}
    ChoreMember <- MCChoreMember
    TaskMember <- MCTaskMember
    TaskPayout <- MCTaskPayout
    Settings <- ByHandOnly
    Allowances <- NoAllowance
    Amounts <- NoAmounts
    Ops <- CompleteUndo
    MayFail = FALSE
    PayoutCents <- MCPayoutCents
    BonusCents <- MCBonusCents
SPECIFICATION Spec
SYMMETRY Symmetry
INVARIANT UndoReversesPayout
CHECK_DEADLOCK FALSE
