--------------------------- MODULE AllowanceWeek ----------------------------
(***************************************************************************)
(* One member's week under a weekly allowance, with the chore list and the *)
(* allowance fixed: every completion is priced by PayoutMath as            *)
(* ChoreService.Complete prices it, and at the end of the week             *)
(* WeekEndBatch.processMemberWeek computes the bonuses.                    *)
(***************************************************************************)
EXTENDS Integers, FiniteSets, PayoutMath

CONSTANTS Chores,     \* the member's active chores
          Weights,    \* chores.weight
          Paces,      \* expected instances per week, from FrequencyPerWeek
          Allowances  \* weekly allowances, in cents

ASSUME AllowanceWeekAssumption ==
    /\ IsFiniteSet(Chores)
    /\ Weights \subseteq 1..5 /\ Paces \subseteq 0..7 /\ Allowances \subseteq Nat \ {0}

VARIABLES plan,       \* the settings of each chore
          allowance,  \* the allowance in force
          done,       \* completed instances of each chore
          earned      \* what they paid

vars == <<plan, allowance, done, earned>>

Init ==
    /\ plan \in [Chores -> [weight : Weights, freq : Paces]]
    /\ allowance \in Allowances
    /\ done = [c \in Chores |-> 0]
    /\ earned = [c \in Chores |-> 0]

\* One completion of chore c on a date of its own; the rate of the household is
\* not consulted, because there is an allowance.
Complete(c) ==
    /\ done[c] < plan[c].freq
    /\ done' = [done EXCEPT ![c] = @ + 1]
    /\ earned' = [earned EXCEPT ![c] =
                    @ + CompletionPrice(0, allowance, plan[c].weight, plan)]
    /\ UNCHANGED <<plan, allowance>>

Next == \E c \in Chores : Complete(c)

Spec == Init /\ [][Next]_vars

-----------------------------------------------------------------------------
Paid == MapThenSumSet(LAMBDA c : earned[c], Chores)
Instances == MapThenSumSet(LAMBDA c : plan[c].freq, Chores)
WeekDone == \A c \in Chores : done[c] = plan[c].freq

\* A kid who does no more than the expected instances never earns more than the
\* allowance, however the shares round and in whatever order the chores are done
\* (wallet_math.go, WeeklyDivisor and PerInstancePayout).
WithinAllowance == Paid <= allowance

\* A kid who does every expected instance earns the whole allowance, up to less
\* than a cent per instance.
AllowanceSpent == WeekDone /\ Instances > 0 => allowance - Paid < Instances

\* The bonus for a chore is the tenth of its week nearest in cents, halves rounded
\* up (wallet_math.go, StreakBonus): 10 * bonus is in earned-4 .. earned+5.
BonusIsNearestTenth ==
    \A c \in Chores : StreakBonus(earned[c]) * 10 \in (earned[c] - 4)..(earned[c] + 5)

\* A week under an allowance adds up: rounding neither overspends it nor loses a
\* cent per instance, and the bonuses are the nearest tenths.
WeekAddsUp == WithinAllowance /\ AllowanceSpent /\ BonusIsNearestTenth
=============================================================================
