--------------------------- MODULE MCChoreWallet ----------------------------
(***************************************************************************)
(* Instances of ChoreWallet for TLC: one household whose chores are priced *)
(* by PayoutMath.                                                          *)
(***************************************************************************)
EXTENDS ChoreWallet, PayoutMath, TLC

CONSTANTS kid, parent, c1, c2, d1, d2, t1

MCMembers == {kid, parent}
MCAdmins  == {parent}

\* Every chore and task belongs to the kid.
MCChoreMember == [c \in Chores |-> kid]
MCTaskMember  == [t \in Tasks |-> kid]
MCTaskPayout  == [t \in Tasks |-> 3]

Weekly == FrequencyPerWeek("weekly", <<>>)
Auto   == [weight |-> 2, freq |-> Weekly, auto |-> TRUE]
ByHand == [weight |-> 2, freq |-> Weekly, auto |-> FALSE]
ByHandOnly == {ByHand}
\* At twice a week, one completed date is not a full week.
TwicePerWeek == [Auto EXCEPT !.freq = FrequencyPerWeek("specific_days", <<"mon", "thu">>)]
AllSettings == {Auto, ByHand, TwicePerWeek}

\* payout_cents_per_weight; 5 keeps every price and every bonus positive.
Rate == 5
MCPayoutCents(a, w, sibs) == CompletionPrice(Rate, a, w, sibs)
MCBonusCents(earned) == WeekBonus(earned)

NoAllowance  == {}
OneAllowance == {4}
PlusMinusOne == {-1, 1}
NoAmounts    == {}

CompleteUndo  == {"complete", "undo"}
WithBatch     == {"complete", "undo", "batch"}
AllOps        == OpNames

\* The bound of the wallet run.  Three questions about one wallet: completions and undos
\* under an allowance, the week-end batch at two paces, and an ad-hoc task with tips,
\* cash-outs and adjustments.
Asked(ops) == \A r \in Requests : pc[r] # "new" => op[r] \in ops
NoTask == \A t \in Tasks : tasks[t] = "absent"
NoChore == \A c \in Chores : chores[c].status = "absent"
NoAllowanceFor(S) == \A x \in S : allowances[x] = {}
Set(S) == \A c \in Chores : chores[c].cfg \in S
Scenario ==
    \/ Asked(CompleteUndo) /\ NoTask /\ NoAllowanceFor({parent}) /\ Set({Auto, ByHand})
    \/ Asked(WithBatch) /\ NoTask /\ NoAllowanceFor(Members) /\ Set({Auto, TwicePerWeek})
    \/ Asked({"approve", "tip", "cash_out", "adjust"}) /\ NoAllowanceFor(Members) /\ NoChore /\ Set({Auto})

Symmetry == Permutations(Requests)
=============================================================================
