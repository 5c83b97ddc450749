----------------------------- MODULE PayoutMath -----------------------------
(***************************************************************************)
(* The pure payout arithmetic of internal/service/wallet_math.go and the   *)
(* price of one chore completion (ChoreService.Complete, step 4).  Amounts *)
(* are whole cents.  Go's integer division truncates; it is only ever      *)
(* applied here to non-negative operands, where it agrees with \div.       *)
(***************************************************************************)
EXTENDS Integers, Sequences, FiniteSetsExt

\* How often a chore is expected per week.  `days' is the days_of_week list,
\* consulted for "specific_days" only.
FrequencyPerWeek(kind, days) ==
    CASE kind = "daily"         -> 7
      [] kind = "weekdays"      -> 5
      [] kind = "specific_days" -> Len(days)
      [] kind = "weekly"        -> 1
      [] OTHER                  -> 0

\* The denominator of the allowance share: the weighted number of instances
\* expected in a week.  `sibs' maps each active chore to its settings.  A chore
\* with a negative weight or frequency is skipped.
WeeklyDivisor(sibs) ==
    LET counted == {c \in DOMAIN sibs : sibs[c].weight >= 0 /\ sibs[c].freq >= 0}
    IN  MapThenSumSet(LAMBDA c : sibs[c].weight * sibs[c].freq, counted)

\* Mutant: rounds up.
PerInstancePayoutRoundsUp(allowance, weight, divisor) ==
    IF allowance <= 0 \/ weight <= 0 \/ divisor <= 0
    THEN 0
    ELSE (allowance * weight + divisor - 1) \div divisor

\* The cents one completion earns out of the weekly allowance, rounded down.
PerInstancePayout(allowance, weight, divisor) ==
    IF allowance <= 0 \/ weight <= 0 \/ divisor <= 0
    THEN 0
    ELSE (allowance * weight) \div divisor

\* Ten percent of the week's payout for the chore, rounded half up.
StreakBonus(weekTotal) == IF weekTotal <= 0 THEN 0 ELSE (weekTotal + 5) \div 10

\* The price of one completion: a share of the allowance when there is one,
\* the household's flat rate per weight unit otherwise.
CompletionPrice(rate, allowance, weight, sibs) ==
    IF allowance > 0
    THEN PerInstancePayout(allowance, weight, WeeklyDivisor(sibs))
    ELSE weight * rate

\* The bonus for one chore's week, from the payout recorded on each date.
WeekBonus(earned) ==
    StreakBonus(MapThenSumSet(LAMBDA d : earned[d], DOMAIN earned))
=============================================================================
