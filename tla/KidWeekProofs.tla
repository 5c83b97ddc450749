--------------------------- MODULE KidWeekProofs ----------------------------
(***************************************************************************)
(* What the run of MCKidWeek checks on a small instance, proved for any    *)
(* chores, weights, paces, allowances, tabs and bounds: one inductive      *)
(* invariant per part, and the sums of a week from FiniteFacts.            *)
(***************************************************************************)
EXTENDS MCKidWeek, FiniteFacts, SequenceTheorems

-----------------------------------------------------------------------------
(* The week under an allowance.                                            *)

\* The cents of one completion of c.
Price(c) == CompletionPrice(0, allowance, plan[c].weight, plan)

\* The types of the week, which TypeOK of the run leaves out.
WeekTypeOK ==
    /\ plan \in [Chores -> [weight : Weights, freq : Paces]] /\ allowance \in Allowances
    /\ done \in [Chores -> Nat] /\ earned \in [Chores -> Nat]

\* The inductive invariant of the week: what was earned is what was done at a fixed price.
WeekInv ==
    /\ WeekTypeOK
    /\ \A c \in Chores : done[c] <= plan[c].freq /\ earned[c] = done[c] * Price(c)

\* The terms of WeeklyDivisor, and it.
WeightedPaces == [c \in Chores |-> plan[c].weight * plan[c].freq]
Divisor == WeeklyDivisor(plan)

\* The settings of the chores and the allowance are small positive numbers.
LEMMA PlanTypes ==
    ASSUME WeekTypeOK
    PROVE  /\ \A c \in Chores : plan[c].weight \in 1..5 /\ plan[c].freq \in 0..7
           /\ allowance \in Nat /\ allowance > 0
           /\ WeightedPaces \in [Chores -> Int]
           /\ \A c \in Chores : WeightedPaces[c] = plan[c].weight * plan[c].freq
<1>1. \A c \in Chores : plan[c].weight \in 1..5 /\ plan[c].freq \in 0..7
  BY AllowanceWeekAssumption DEF WeekTypeOK
<1>2. allowance \in Nat /\ allowance > 0
  BY AllowanceWeekAssumption DEF WeekTypeOK
<1>3. \A c \in Chores : WeightedPaces[c] = plan[c].weight * plan[c].freq
  BY DEF WeightedPaces
<1>4. \A c \in Chores : plan[c].weight * plan[c].freq \in Int
  BY <1>1
<1>5. WeightedPaces \in [Chores -> Int]
  BY <1>4 DEF WeightedPaces
<1> QED
  BY <1>1, <1>2, <1>3, <1>5

\* WeeklyDivisor skips no chore of the plan, and is a sum over the chores.
LEMMA DivisorIsSum ==
    ASSUME WeekTypeOK
    PROVE  Divisor = Sum(WeightedPaces, Chores)
<1> DEFINE w == WeightedPaces
           P(g) == g = [s \in SUBSET Chores |-> IF s = {} THEN 0
                          ELSE plan[CHOOSE x \in s : TRUE].weight * plan[CHOOSE x \in s : TRUE].freq
                               + g[s \ {CHOOSE x \in s : TRUE}]]
<1>1. {c \in DOMAIN plan : plan[c].weight >= 0 /\ plan[c].freq >= 0} = Chores
  BY PlanTypes DEF WeekTypeOK
<1>2. Divisor = (CHOOSE g : P(g))[Chores]
  BY <1>1 DEF Divisor, WeeklyDivisor, MapThenSumSet, MapThenFoldSet
<1>3. ASSUME NEW s \in SUBSET Chores, s # {}
      PROVE  w[Pick(s)] = plan[Pick(s)].weight * plan[Pick(s)].freq
  <2>1. Pick(s) \in Chores
    BY <1>3, PickIn
  <2> QED
    BY <2>1 DEF WeightedPaces
<1>4. ASSUME NEW g
      PROVE  P(g) <=> IsSum(g, w, Chores)
  BY <1>3 DEF IsSum, Pick
<1>5. w \in [Chores -> Int] /\ IsFiniteSet(Chores)
  BY PlanTypes, AllowanceWeekAssumption
<1> HIDE DEF P, w
<1>6. PICK f \in [SUBSET Chores -> Int] : IsSum(f, w, Chores)
  BY <1>5, SumExists
<1>7. IsSum(CHOOSE g : P(g), w, Chores)
  BY <1>4, <1>6
<1>8. (CHOOSE g : P(g)) = f
  BY <1>5, <1>6, <1>7, SumUnique
<1>9. Sum(w, Chores) = f[Chores]
  BY <1>5, <1>6, SumIs
<1> QED
  BY <1>2, <1>8, <1>9 DEF w

\* The terms of Instances.
Frequencies == [c \in Chores |-> plan[c].freq]

\* So is the number of expected instances.
LEMMA InstancesIsSum ==
    ASSUME WeekTypeOK
    PROVE  Instances = Sum(Frequencies, Chores) /\ Frequencies \in [Chores -> Int]
<1> DEFINE w == Frequencies
           P(g) == g = [s \in SUBSET Chores |-> IF s = {} THEN 0
                          ELSE plan[CHOOSE x \in s : TRUE].freq + g[s \ {CHOOSE x \in s : TRUE}]]
<1>2. Instances = (CHOOSE g : P(g))[Chores]
  BY DEF Instances, MapThenSumSet, MapThenFoldSet
<1>3. ASSUME NEW s \in SUBSET Chores, s # {}
      PROVE  w[Pick(s)] = plan[Pick(s)].freq
  <2>1. Pick(s) \in Chores
    BY <1>3, PickIn
  <2> QED
    BY <2>1 DEF Frequencies
<1>4. ASSUME NEW g
      PROVE  P(g) <=> IsSum(g, w, Chores)
  BY <1>3 DEF IsSum, Pick
<1>5. w \in [Chores -> Int] /\ IsFiniteSet(Chores)
  BY PlanTypes, AllowanceWeekAssumption DEF Frequencies
<1> HIDE DEF P, w
<1>6. PICK f \in [SUBSET Chores -> Int] : IsSum(f, w, Chores)
  BY <1>5, SumExists
<1>7. IsSum(CHOOSE g : P(g), w, Chores)
  BY <1>4, <1>6
<1>8. (CHOOSE g : P(g)) = f
  BY <1>5, <1>6, <1>7, SumUnique
<1>9. Sum(w, Chores) = f[Chores]
  BY <1>5, <1>6, SumIs
<1> QED
  BY <1>2, <1>5, <1>8, <1>9 DEF w

\* Integer division leaves a remainder below the divisor.
LEMMA Quotient ==
    ASSUME NEW n \in Nat, NEW d \in Nat, d > 0
    PROVE  n \div d \in Nat /\ d * (n \div d) <= n /\ n <= d * (n \div d) + (d - 1)
  OBVIOUS

\* PerInstancePayout rounds a chore's share down, by less than a cent.
LEMMA ShareBounds ==
    ASSUME WeekTypeOK, NEW c \in Chores
    PROVE  /\ Price(c) \in Nat
           /\ Divisor <= 0 => Price(c) = 0
           /\ Divisor > 0 => /\ Divisor * Price(c) <= allowance * plan[c].weight
                             /\ allowance * plan[c].weight <= Divisor * Price(c) + (Divisor - 1)
<1> DEFINE n == allowance * plan[c].weight
           d == Divisor
<1>1. plan[c].weight \in 1..5 /\ allowance \in Nat /\ allowance > 0
  BY PlanTypes
<1>2. n \in Nat
  BY <1>1
<1>3. d \in Int
  BY DivisorIsSum, PlanTypes, SumInt, AllowanceWeekAssumption
<1>4. Price(c) = IF d <= 0 THEN 0 ELSE n \div d
  BY <1>1, <1>3 DEF Price, CompletionPrice, PerInstancePayout, Divisor
<1> HIDE DEF n, d
<1>5. CASE d <= 0
  BY <1>3, <1>4, <1>5 DEF d
<1>6. CASE d > 0
  <2>1. d \in Nat
    BY <1>3, <1>6
  <2>2. n \div d \in Nat /\ d * (n \div d) <= n /\ n <= d * (n \div d) + (d - 1)
    BY <1>2, <1>6, <2>1, Quotient
  <2>3. Price(c) = n \div d
    BY <1>3, <1>4, <1>6
  <2> QED
    BY <1>3, <1>6, <2>2, <2>3 DEF n, d
<1> QED
  BY <1>3, <1>5, <1>6

\* The week begins with nothing done.
LEMMA WeekInit == Init => WeekInv
<1> SUFFICES ASSUME Init PROVE WeekInv
  OBVIOUS
<1>1. WeekTypeOK
  BY DEF Init, WeekTypeOK
<1>2. ASSUME NEW c \in Chores
      PROVE done[c] <= plan[c].freq /\ earned[c] = done[c] * Price(c)
  <2>1. done[c] = 0 /\ earned[c] = 0 /\ plan[c].freq \in 0..7 /\ Price(c) \in Nat
    BY <1>1, PlanTypes, ShareBounds DEF Init
  <2> QED
    BY <2>1
<1> QED
  BY <1>1, <1>2 DEF WeekInv

\* A completion pays the price of its chore.
LEMMA WeekStep == WeekInv /\ [Next]_weekVars => WeekInv'
<1> SUFFICES ASSUME WeekInv, [Next]_weekVars PROVE WeekInv'
  OBVIOUS
<1>1. CASE UNCHANGED weekVars
  BY <1>1 DEF weekVars, WeekInv, WeekTypeOK, Price
<1>2. ASSUME NEW c \in Chores, Complete(c) PROVE WeekInv'
  <2>1. /\ done' = [done EXCEPT ![c] = @ + 1] /\ plan' = plan /\ allowance' = allowance
        /\ earned' = [earned EXCEPT ![c] = @ + Price(c)] /\ done[c] < plan[c].freq
    BY <1>2 DEF Complete, Price
  <2>2. \A d \in Chores : Price(d)' = Price(d)
    BY <2>1 DEF Price
  <2>3. WeekTypeOK /\ \A d \in Chores : Price(d) \in Nat /\ done[d] \in Nat /\ earned[d] \in Nat /\ plan[d].freq \in 0..7
    BY ShareBounds, PlanTypes DEF WeekInv, WeekTypeOK
  <2>4. WeekTypeOK'
    BY <2>1, <2>3 DEF WeekTypeOK
  <2>5. ASSUME NEW d \in Chores
        PROVE  (done[d] <= plan[d].freq /\ earned[d] = done[d] * Price(d))'
    <3>1. done[d] <= plan[d].freq /\ earned[d] = done[d] * Price(d)
      BY DEF WeekInv
    <3>2. CASE d = c
      <4>1. done'[d] = done[d] + 1 /\ earned'[d] = earned[d] + Price(d)
        BY <2>1, <2>3, <3>2 DEF WeekTypeOK
      <4>2. (done[d] + 1) * Price(d) = done[d] * Price(d) + Price(d)
        BY <2>3
      <4>3. earned'[d] = done'[d] * Price(d)'
        BY <2>2, <3>1, <4>1, <4>2
      <4>4. done'[d] <= plan'[d].freq
        BY <2>1, <2>3, <3>2, <4>1
      <4> QED
        BY <4>3, <4>4
    <3>3. CASE d # c
      BY <2>1, <2>2, <2>3, <3>1, <3>3 DEF WeekTypeOK
    <3> QED
      BY <3>2, <3>3
  <2> QED
    BY <2>4, <2>5 DEF WeekInv
<1> QED
  BY <1>1, <1>2 DEF Next

\* What n of f instances pay is within the share of all f.
LEMMA Scaled ==
    ASSUME NEW n \in Nat, NEW f \in Nat, n <= f, NEW w \in Nat, NEW p \in Nat, NEW d \in Nat, NEW a \in Nat,
           d * p <= a * w
    PROVE  d * (n * p) <= a * (w * f)
<1>1. d * (n * p) = n * (d * p) /\ a * (w * f) = f * (a * w)
  OBVIOUS
<1>2. d * p \in Nat /\ a * w \in Nat
  OBVIOUS
<1> DEFINE x == d * p
           y == a * w
<1> HIDE DEF x, y
<1>3. \A u, v \in Nat : u <= v => n * u <= f * v
  OBVIOUS
<1> QED
  BY <1>1, <1>2, <1>3

\* What all f instances pay falls short of their share by less than a cent each.
LEMMA ScaledUp ==
    ASSUME NEW f \in Nat, NEW w \in Nat, NEW p \in Nat, NEW d \in Nat, d > 0, NEW a \in Nat,
           a * w <= d * p + (d - 1)
    PROVE  a * (w * f) <= d * (f * p) + (d - 1) * f
<1>1. a * (w * f) = f * (a * w) /\ d * (f * p) + (d - 1) * f = f * (d * p + (d - 1))
  OBVIOUS
<1>2. a * w \in Nat /\ d * p + (d - 1) \in Nat
  OBVIOUS
<1>3. \A u, v \in Nat : u <= v => f * u <= f * v
  OBVIOUS
<1> QED
  BY <1>1, <1>2, <1>3

\* The payouts of all chores together: the term by term bounds hold of the sums.
LEMMA WeekImplies == WeekInv => WeekAddsUp
<1> SUFFICES ASSUME WeekInv PROVE WeekAddsUp
  OBVIOUS
<1> DEFINE W == Divisor
           wf == WeightedPaces
           fr == Frequencies
<1>1. WeekTypeOK
  BY DEF WeekInv
<1>2. /\ allowance \in Nat /\ allowance > 0
      /\ IsFiniteSet(Chores) /\ earned \in [Chores -> Int] /\ wf \in [Chores -> Int] /\ fr \in [Chores -> Int]
  BY <1>1, PlanTypes, InstancesIsSum, AllowanceWeekAssumption DEF WeekTypeOK
<1>3. W = Sum(wf, Chores) /\ Instances = Sum(fr, Chores) /\ Paid = Sum(earned, Chores)
  BY <1>1, DivisorIsSum, InstancesIsSum DEF Paid, Sum
<1>4. W \in Int /\ Instances \in Int /\ Paid \in Int
  BY <1>2, <1>3, SumInt
<1>5. \A c \in Chores : /\ plan[c].weight \in 1..5 /\ plan[c].freq \in 0..7 /\ done[c] \in Nat
                        /\ done[c] <= plan[c].freq /\ earned[c] = done[c] * Price(c) /\ Price(c) \in Nat
                        /\ wf[c] = plan[c].weight * plan[c].freq /\ fr[c] = plan[c].freq
  BY <1>1, PlanTypes, ShareBounds DEF WeekInv, WeekTypeOK, Frequencies
<1>6. \A c \in Chores : /\ W <= 0 => Price(c) = 0
                        /\ W > 0 => /\ W * Price(c) <= allowance * plan[c].weight
                                    /\ allowance * plan[c].weight <= W * Price(c) + (W - 1)
  BY <1>1, ShareBounds
<1> HIDE DEF W, wf, fr
<1>7. WithinAllowance
  <2>1. CASE W <= 0
    <3>1. \A c \in Chores : AtMost(1, earned[c], 0, earned[c], 0, earned[c])
      BY <1>5, <1>6, <2>1 DEF AtMost
    <3>2. AtMost(1, Sum(earned, Chores), 0, Sum(earned, Chores), 0, Sum(earned, Chores))
      BY <1>2, <3>1, SumCompare
    <3> QED
      BY <1>2, <1>3, <1>4, <3>2 DEF WithinAllowance, AtMost
  <2>2. CASE W > 0
    <3>1. ASSUME NEW c \in Chores
          PROVE  AtMost(W, earned[c], allowance, wf[c], 0, wf[c])
      <4>1. W * (done[c] * Price(c)) <= allowance * (plan[c].weight * plan[c].freq)
        <5>1. /\ W \in Nat /\ done[c] \in Nat /\ plan[c].freq \in Nat /\ plan[c].weight \in Nat
              /\ done[c] <= plan[c].freq /\ Price(c) \in Nat /\ W * Price(c) <= allowance * plan[c].weight
          BY <1>4, <1>5, <1>6, <2>2
        <5> DEFINE n == done[c]
                   f == plan[c].freq
                   w == plan[c].weight
                   p == Price(c)
        <5> HIDE DEF n, f, w, p
        <5>2. W * (n * p) <= allowance * (w * f)
          BY <1>2, <5>1, Scaled DEF n, f, w, p
        <5> QED
          BY <5>2 DEF n, f, w, p
      <4>2. wf[c] \in Int
        BY <1>2
      <4> QED
        BY <1>2, <1>5, <4>1, <4>2 DEF AtMost
    <3>2. AtMost(W, Sum(earned, Chores), allowance, Sum(wf, Chores), 0, Sum(wf, Chores))
      <4>1. allowance \in Int /\ 0 \in Int
        BY <1>2
      <4> QED
        BY <1>2, <1>4, <3>1, <4>1, SumCompare
    <3>3. W * Paid <= allowance * W
      BY <1>2, <1>3, <1>4, <3>2 DEF AtMost
    <3> QED
      BY <1>2, <1>4, <2>2, <3>3 DEF WithinAllowance
  <2> QED
    BY <1>4, <2>1, <2>2
<1>8. AllowanceSpent
  <2> SUFFICES ASSUME WeekDone, Instances > 0
               PROVE  allowance - Paid < Instances
    BY DEF AllowanceSpent
  <2>1. \A c \in Chores : AtMost(1, fr[c], 1, wf[c], 0, wf[c])
    BY <1>5 DEF AtMost
  <2>2. AtMost(1, Sum(fr, Chores), 1, Sum(wf, Chores), 0, Sum(wf, Chores))
    BY <1>2, <2>1, SumCompare
  <2>3. W > 0
    BY <1>3, <1>4, <2>2 DEF AtMost
  <2>4. ASSUME NEW c \in Chores
        PROVE  AtMost(allowance, wf[c], W, earned[c], W - 1, fr[c])
    <3>1. allowance * (plan[c].weight * plan[c].freq)
             <= W * (plan[c].freq * Price(c)) + (W - 1) * plan[c].freq
      <4>1. /\ W \in Nat /\ plan[c].freq \in Nat /\ plan[c].weight \in Nat
            /\ Price(c) \in Nat /\ allowance * plan[c].weight <= W * Price(c) + (W - 1)
        BY <1>4, <1>5, <1>6, <2>3
      <4> QED
        BY <1>2, <2>3, <4>1, ScaledUp
    <3> QED
      BY <1>5, <3>1 DEF WeekDone, AtMost
  <2>5. AtMost(allowance, Sum(wf, Chores), W, Sum(earned, Chores), W - 1, Sum(fr, Chores))
    <3>1. W - 1 \in Int /\ allowance \in Int
      BY <1>2, <1>4
    <3> QED
      BY <1>2, <1>4, <2>4, <3>1, SumCompare
  <2>6. allowance * W <= W * Paid + (W - 1) * Instances
    BY <1>3, <2>5 DEF AtMost
  <2>7. (W - 1) * Instances < W * Instances
    BY <1>4, <2>3
  <2>8. allowance * W < W * Paid + W * Instances
    BY <1>2, <1>4, <2>6, <2>7
  <2>9. W * Paid + W * Instances = (Paid + Instances) * W
    BY <1>4
  <2>10. Paid + Instances \in Int /\ allowance * W < (Paid + Instances) * W
    BY <1>4, <2>8, <2>9
  <2>11. allowance < Paid + Instances
    <3> DEFINE v == Paid + Instances
    <3>1. v \in Int /\ allowance * W < v * W
      BY <2>10
    <3> HIDE DEF v
    <3>2. allowance < v
      BY <1>2, <1>4, <2>3, <3>1
    <3> QED
      BY <3>2 DEF v
  <2> QED
    BY <1>2, <1>4, <2>11
<1>9. BonusIsNearestTenth
  <2> SUFFICES ASSUME NEW c \in Chores
               PROVE  StreakBonus(earned[c]) * 10 \in (earned[c] - 4)..(earned[c] + 5)
    BY DEF BonusIsNearestTenth
  <2>1. earned[c] \in Nat
    BY <1>1 DEF WeekTypeOK
  <2> QED
    BY <2>1 DEF StreakBonus
<1> QED
  BY <1>7, <1>8, <1>9 DEF WeekAddsUp

-----------------------------------------------------------------------------
(* The chore timers.                                                       *)

\* The starts and stops of chore c that are under way.
TimingOf(c) == {a \in asks : a.hook # "mark" /\ a.c = c}

\* What the timer of c shows is what the server has.
Matches(c) ==
    /\ kid[c].running => entries[c].open
    /\ kid[c].awaiting => ~entries[c].open /\ entries[c].closed > 0

\* An accepted start or stop did what it will report.
Answers(a) ==
    a.st = "ok" => IF a.hook = "start" THEN entries[a.c].open
                   ELSE ~entries[a.c].open /\ entries[a.c].closed > 0

\* A chore that is not given up has at most one start or stop under way, which is
\* heard, and shows the truth unless an accepted one is about to correct it.
HeardOf(c) ==
    /\ \A a, b \in TimingOf(c) : a = b
    /\ \A a \in TimingOf(c) : a.heard /\ Answers(a)
    /\ (\A a \in TimingOf(c) : a.st # "ok") => Matches(c)

\* The inductive invariant of the timers.
KidInv == K!KidTypeOK /\ \A c \in Chores : c \notin unheard => HeardOf(c)

\* A request.
Ask == [n : 1..MaxPresses, hook : {"start", "stop", "mark"}, c : Chores,
        confirm : BOOLEAN, heard : BOOLEAN, st : {"sent", "ok", "failed"}]

\* The invariant is stronger than the property.
LEMMA KidImplies == KidInv => TimersHonest
  BY DEF KidInv, HeardOf, TimingOf, Matches, TimersHonest, K!TimersHonest, K!StopMeansOpen, K!DialogAfterStop, K!Timing

\* Nothing runs at first.
LEMMA KidInitInv == K!KidInit => KidInv
<1> SUFFICES ASSUME K!KidInit PROVE KidInv
  OBVIOUS
<1>1. K!KidTypeOK
  BY BoundsAssumption DEF K!KidInit, K!KidTypeOK, K!NoTimer
<1>2. ASSUME NEW c \in Chores PROVE HeardOf(c)
  BY DEF K!KidInit, K!NoTimer, HeardOf, TimingOf, Matches
<1> QED
  BY <1>1, <1>2 DEF KidInv

\* What other parts do changes no timer.
LEMMA KidUnchanged == KidInv /\ UNCHANGED kidVars => KidInv'
  BY DEF KidInv, kidVars, K!KidTypeOK, HeardOf, TimingOf, Matches, Answers

\* A press that leaves the timers as they are: the chore pressed has one request, or is
\* given up as unheard, and so are the chores whose callbacks are replaced.
LEMMA MutateKeeps ==
    ASSUME KidInv, NEW hook \in {"start", "stop", "mark"}, NEW c \in Chores, NEW confirm \in BOOLEAN,
           K!MutateKid(hook, c, confirm), UNCHANGED entries,
           kid' \in [Chores -> [running : BOOLEAN, awaiting : BOOLEAN, error : BOOLEAN]],
           \A d \in Chores : kid'[d].running = kid[d].running /\ kid'[d].awaiting = kid[d].awaiting
    PROVE  KidInv'
<1>0. PICK new : new = [n |-> presses + 1, hook |-> hook, c |-> c, confirm |-> confirm, heard |-> TRUE, st |-> "sent"]
  OBVIOUS
<1> DEFINE Deaf(a) == [a EXCEPT !.heard = @ /\ a.hook # hook]
<1>1. K!KidTypeOK /\ asks \subseteq Ask /\ presses \in 0..MaxPresses
  BY DEF KidInv, K!KidTypeOK, Ask
<1>2. presses < MaxPresses /\ presses' = presses + 1
  BY DEF K!MutateKid, K!Press
<1>3. asks' = {Deaf(a) : a \in asks} \cup {new}
  BY <1>0 DEF K!MutateKid
<1>4. \A a \in asks : Deaf(a) \in Ask /\ Deaf(a).n = a.n /\ Deaf(a).hook = a.hook /\ Deaf(a).c = a.c
                      /\ Deaf(a).st = a.st /\ Deaf(a).heard = (a.heard /\ a.hook # hook)
  BY <1>1 DEF Ask
<1>5. new \in Ask
  BY <1>0, <1>1, <1>2, BoundsAssumption DEF Ask
<1>6. unheard \subseteq unheard' /\ unheard' \subseteq Chores
  BY <1>1 DEF K!MutateKid, K!KidTypeOK, K!Timing, Ask
<1> HIDE DEF Deaf
<1>7. K!KidTypeOK'
  <2>1. asks' \subseteq Ask
    BY <1>3, <1>4, <1>5
  <2>2. entries' \in [Chores -> [open : BOOLEAN, closed : Nat]]
    BY <1>1 DEF K!KidTypeOK
  <2>3. presses' \in 0..MaxPresses
    BY <1>1, <1>2, BoundsAssumption
  <2> QED
    BY <1>6, <2>1, <2>2, <2>3 DEF K!KidTypeOK, Ask
<1>8. ASSUME NEW d \in Chores, d \notin unheard'
      PROVE  HeardOf(d)'
  <2>1. HeardOf(d)
    BY <1>6, <1>8 DEF KidInv
  <2>2. \A a \in TimingOf(d) : a.hook # hook
    BY <1>8, <2>1 DEF K!MutateKid, K!Timing, TimingOf, HeardOf
  <2>3. Matches(d)' <=> Matches(d)
    BY DEF Matches
  <2>4. CASE d # c \/ hook = "mark"
    <3>1. TimingOf(d)' = {Deaf(a) : a \in TimingOf(d)}
      <4>1. ASSUME NEW b \in TimingOf(d)' PROVE b \in {Deaf(a) : a \in TimingOf(d)}
        <5>1. b # new
          BY <1>0, <2>4 DEF TimingOf
        <5>2. PICK a \in asks : b = Deaf(a)
          BY <1>3, <5>1 DEF TimingOf
        <5> QED
          BY <1>4, <5>2 DEF TimingOf
      <4>2. ASSUME NEW a \in TimingOf(d) PROVE Deaf(a) \in TimingOf(d)'
        BY <1>3, <1>4 DEF TimingOf
      <4> QED
        BY <4>1, <4>2
    <3>2. \A a \in TimingOf(d) : a \in asks /\ Deaf(a).heard = a.heard /\ (Answers(Deaf(a))' <=> Answers(a))
      <4>1. \A a \in TimingOf(d) : a \in asks /\ Deaf(a).heard = a.heard
        BY <1>1, <1>4, <2>2 DEF TimingOf, Ask
      <4> QED
        BY <1>4, <4>1 DEF Answers
    <3> QED
      BY <1>4, <2>1, <2>3, <3>1, <3>2 DEF HeardOf
  <2>5. CASE d = c /\ hook # "mark"
    <3>1. TimingOf(d) = {}
      BY <1>8, <2>5 DEF K!MutateKid, K!Timing, TimingOf
    <3>2. TimingOf(d)' = {new}
      <4>1. ASSUME NEW b \in TimingOf(d)', b # new PROVE FALSE
        <5>2. PICK a \in asks : b = Deaf(a)
          BY <1>3, <4>1 DEF TimingOf
        <5> QED
          BY <1>4, <3>1, <5>2 DEF TimingOf
      <4>2. new \in TimingOf(d)'
        BY <1>0, <1>3, <2>5 DEF TimingOf
      <4> QED
        BY <4>1, <4>2
    <3>3. new.heard /\ Answers(new)' /\ new.st # "ok"
      BY <1>0 DEF Answers
    <3>4. Matches(d)'
      BY <2>1, <2>3, <3>1 DEF HeardOf
    <3>5. \A a \in TimingOf(d)' : a = new
      BY <3>2
    <3> QED
      BY <3>3, <3>4, <3>5 DEF HeardOf
  <2> QED
    BY <2>4, <2>5
<1> QED
  BY <1>7, <1>8 DEF KidInv

\* A reload forgets the timers and gives up every chore with a request under way.
LEMMA ReloadKeeps == ASSUME KidInv, K!ReloadKid PROVE KidInv'
<1> DEFINE Deaf(a) == [a EXCEPT !.heard = FALSE]
<1>1. K!KidTypeOK /\ asks \subseteq Ask /\ presses \in 0..MaxPresses
  BY DEF KidInv, K!KidTypeOK, Ask
<1>2. /\ presses < MaxPresses /\ presses' = presses + 1 /\ kid' = [c \in Chores |-> K!NoTimer]
      /\ asks' = {Deaf(a) : a \in asks} /\ entries' = entries
      /\ unheard' = unheard \cup {a.c : a \in K!Timing}
  BY DEF K!ReloadKid, K!Press
<1>3. \A a \in asks : Deaf(a) \in Ask /\ Deaf(a).hook = a.hook /\ Deaf(a).c = a.c
  BY <1>1 DEF Ask
<1> HIDE DEF Deaf
<1>4. K!KidTypeOK'
  <2>1. asks' \subseteq Ask
    BY <1>2, <1>3
  <2>2. unheard' \subseteq Chores
    BY <1>1, <1>2 DEF K!KidTypeOK, K!Timing, Ask
  <2>3. presses' \in 0..MaxPresses
    BY <1>1, <1>2, BoundsAssumption
  <2>4. kid' \in [Chores -> [running : BOOLEAN, awaiting : BOOLEAN, error : BOOLEAN]]
    BY <1>2 DEF K!NoTimer
  <2> QED
    BY <1>1, <1>2, <2>1, <2>2, <2>3, <2>4 DEF K!KidTypeOK, Ask
<1>5. ASSUME NEW d \in Chores, d \notin unheard'
      PROVE  HeardOf(d)'
  <2>1. \A a \in asks : ~(a.hook # "mark" /\ a.c = d)
    BY <1>2, <1>5 DEF K!Timing
  <2>2. TimingOf(d)' = {}
    BY <1>2, <1>3, <2>1 DEF TimingOf
  <2>3. Matches(d)'
    BY <1>2 DEF Matches, K!NoTimer
  <2> QED
    BY <2>2, <2>3 DEF HeardOf
<1> QED
  BY <1>4, <1>5 DEF KidInv

\* The server opens or closes the entry of the one request under way.
LEMMA ServerKeeps == ASSUME KidInv, NEW a \in asks, K!ServerTakesTimer(a) PROVE KidInv'
<1>1. K!KidTypeOK /\ asks \subseteq Ask /\ a \in Ask /\ a.c \in Chores
  BY DEF KidInv, K!KidTypeOK, Ask
<1>2. a.st = "sent" /\ kid' = kid /\ presses' = presses
  BY DEF K!ServerTakesTimer
<1>3. PICK st \in {"ok", "failed"} :
         /\ asks' = (asks \ {a}) \cup {[a EXCEPT !.st = st]}
         /\ \/ st = "failed" /\ UNCHANGED <<entries, unheard>>
            \/ /\ entries' = CASE a.hook = "start" -> K!Start(a.c) [] a.hook = "stop" -> K!Stop(a.c) [] OTHER -> entries
               /\ \/ st = "ok" /\ UNCHANGED unheard
                  \/ st = "failed" /\ unheard' = unheard \cup {y.c : y \in K!Timing \cap {a}}
  BY DEF K!ServerTakesTimer
<1> DEFINE b == [a EXCEPT !.st = st]
<1>4. b \in Ask /\ b.c = a.c /\ b.hook = a.hook /\ b.heard = a.heard /\ b.st = st
  BY <1>1 DEF Ask
<1>5. asks' = (asks \ {a}) \cup {b}
  BY <1>3
<1>6. unheard \subseteq unheard' /\ unheard' \subseteq Chores
  BY <1>1, <1>3 DEF K!KidTypeOK, K!Timing
<1>7. /\ entries' \in [Chores -> [open : BOOLEAN, closed : Nat]]
      /\ \A d \in Chores : (d # a.c \/ a.hook = "mark") => entries'[d] = entries[d]
  <2>1. entries \in [Chores -> [open : BOOLEAN, closed : Nat]]
    BY <1>1 DEF K!KidTypeOK
  <2>2. K!Start(a.c) \in [Chores -> [open : BOOLEAN, closed : Nat]] /\ \A d \in Chores \ {a.c} : K!Start(a.c)[d] = entries[d]
    BY <1>1, <2>1 DEF K!Start
  <2>3. K!Stop(a.c) \in [Chores -> [open : BOOLEAN, closed : Nat]] /\ \A d \in Chores \ {a.c} : K!Stop(a.c)[d] = entries[d]
    BY <1>1, <2>1 DEF K!Stop
  <2> QED
    BY <1>3, <2>1, <2>2, <2>3
<1>8. a.hook # "mark" /\ a.c \notin unheard' =>
         \/ st = "failed" /\ entries' = entries
         \/ /\ st = "ok"
            /\ entries' = IF a.hook = "start" THEN K!Start(a.c) ELSE K!Stop(a.c)
  BY <1>1, <1>3 DEF K!Timing, Ask
<1> HIDE DEF b
<1>9. K!KidTypeOK'
  <2>1. asks' \subseteq Ask
    BY <1>1, <1>4, <1>5
  <2> QED
    BY <1>1, <1>2, <1>6, <1>7, <2>1 DEF K!KidTypeOK, Ask
<1>10. ASSUME NEW d \in Chores, d \notin unheard'
       PROVE  HeardOf(d)'
  <2>1. HeardOf(d)
    BY <1>6, <1>10 DEF KidInv
  <2>2. CASE d # a.c \/ a.hook = "mark"
    <3>1. TimingOf(d)' = TimingOf(d)
      BY <1>4, <1>5, <2>2 DEF TimingOf
    <3>2. \A x \in TimingOf(d) : x.c = d
      BY DEF TimingOf
    <3>3. entries'[d] = entries[d]
      BY <1>7, <2>2
    <3>4. \A x \in TimingOf(d) : Answers(x)' <=> Answers(x)
      BY <3>2, <3>3 DEF Answers
    <3>5. Matches(d)' <=> Matches(d)
      BY <1>2, <3>3 DEF Matches
    <3> QED
      BY <2>1, <3>1, <3>4, <3>5 DEF HeardOf
  <2>3. CASE d = a.c /\ a.hook # "mark"
    <3>1. a \in TimingOf(d) /\ a.heard /\ \A x \in TimingOf(d) : x = a
      BY <2>1, <2>3 DEF TimingOf, HeardOf
    <3>2. \A x \in TimingOf(d)' : x = b
      BY <1>5, <3>1 DEF TimingOf
    <3>3. Matches(d)
      BY <1>2, <2>1, <3>1 DEF HeardOf
    <3>4. b \in TimingOf(d)'
      BY <1>4, <1>5, <2>3 DEF TimingOf
    <3>5. CASE st = "failed" /\ entries' = entries
      <4>1. Matches(d)' /\ Answers(b)'
        BY <1>2, <1>4, <3>3, <3>5 DEF Matches, Answers
      <4> QED
        BY <1>4, <3>1, <3>2, <4>1 DEF HeardOf
    <3>6. CASE st = "ok" /\ entries' = IF a.hook = "start" THEN K!Start(a.c) ELSE K!Stop(a.c)
      <4>1. entries \in [Chores -> [open : BOOLEAN, closed : Nat]]
        BY <1>1 DEF K!KidTypeOK
      <4>2. Answers(b)'
        <5>1. CASE a.hook = "start"
          <6>1. entries'[d].open
            BY <2>3, <3>6, <4>1, <5>1 DEF K!Start
          <6> QED
            BY <1>4, <2>3, <5>1, <6>1 DEF Answers
        <5>2. CASE a.hook # "start"
          <6>1. ~entries'[d].open /\ entries'[d].closed = entries[d].closed + 1 /\ entries[d].closed \in Nat
            BY <2>3, <3>6, <4>1, <5>2 DEF K!Stop
          <6> QED
            BY <1>4, <2>3, <5>2, <6>1 DEF Answers
        <5> QED
          BY <5>1, <5>2
      <4> QED
        BY <1>4, <3>1, <3>2, <3>4, <3>6, <4>2 DEF HeardOf
    <3> QED
      BY <1>8, <1>10, <2>3, <3>5, <3>6
  <2> QED
    BY <2>2, <2>3
<1> QED
  BY <1>9, <1>10 DEF KidInv

\* The one request under way is answered, and the timer shows what it did.
LEMMA AnsweredKeeps == ASSUME KidInv, NEW a \in asks, K!AnsweredTimer(a) PROVE KidInv'
<1>1. K!KidTypeOK /\ asks \subseteq Ask /\ a \in Ask /\ a.c \in Chores
  BY DEF KidInv, K!KidTypeOK, Ask
<1>2. /\ a.st # "sent" /\ asks' = asks \ {a} /\ entries' = entries /\ presses' = presses /\ unheard' = unheard
      /\ kid' = IF a.heard THEN [kid EXCEPT ![a.c] = K!Told(a)] ELSE kid
  BY DEF K!AnsweredTimer
<1>3. kid \in [Chores -> [running : BOOLEAN, awaiting : BOOLEAN, error : BOOLEAN]]
  BY <1>1 DEF K!KidTypeOK
<1>4. K!Told(a) \in [running : BOOLEAN, awaiting : BOOLEAN, error : BOOLEAN]
  BY <1>1, <1>3 DEF K!Told, K!NoTimer
<1>5. /\ a.hook = "mark" => ((~K!Told(a).running /\ ~K!Told(a).awaiting) \/ K!Told(a) = kid[a.c])
      /\ a.hook = "start" /\ a.st = "ok" => K!Told(a).running /\ ~K!Told(a).awaiting
      /\ a.hook = "stop" /\ a.st = "ok" => ~K!Told(a).running /\ K!Told(a).awaiting
      /\ a.hook # "mark" /\ a.st = "failed" => K!Told(a).running = kid[a.c].running /\ K!Told(a).awaiting = kid[a.c].awaiting
  BY <1>1, <1>3 DEF K!Told, K!NoTimer
<1>6. K!KidTypeOK'
  BY <1>1, <1>2, <1>3, <1>4 DEF K!KidTypeOK
<1>7. ASSUME NEW d \in Chores, d \notin unheard'
      PROVE  HeardOf(d)'
  <2>1. HeardOf(d)
    BY <1>2, <1>7 DEF KidInv
  <2>2. TimingOf(d)' \subseteq TimingOf(d) /\ (d # a.c \/ a.hook = "mark" => TimingOf(d)' = TimingOf(d))
    BY <1>2 DEF TimingOf
  <2>3. \A x \in TimingOf(d) : Answers(x)' <=> Answers(x)
    BY <1>2 DEF Answers
  <2>4. CASE d # a.c \/ a.hook = "mark"
    <3>1. Matches(d) => Matches(d)'
      <4>1. kid'[d] = kid[d] \/ (~kid'[d].running /\ ~kid'[d].awaiting)
        BY <1>2, <1>3, <1>5, <2>4
      <4> QED
        BY <1>2, <4>1 DEF Matches
    <3> QED
      BY <2>1, <2>2, <2>3, <2>4, <3>1 DEF HeardOf
  <2>5. CASE d = a.c /\ a.hook # "mark"
    <3>1. a \in TimingOf(d) /\ a.heard /\ Answers(a) /\ \A x \in TimingOf(d) : x = a
      BY <2>1, <2>5 DEF TimingOf, HeardOf
    <3>2. TimingOf(d)' = {}
      BY <1>2, <2>2, <3>1 DEF TimingOf
    <3>3. kid'[d] = K!Told(a)
      BY <1>2, <1>3, <2>5, <3>1
    <3>4. Matches(d)'
      <4>1. CASE a.st = "ok"
        BY <1>1, <1>2, <1>5, <2>5, <3>1, <3>3, <4>1 DEF Matches, Answers, Ask
      <4>2. CASE a.st = "failed"
        <5>1. Matches(d)
          BY <2>1, <3>1, <4>2 DEF HeardOf
        <5> QED
          BY <1>2, <1>5, <2>5, <3>3, <4>2, <5>1 DEF Matches
      <4> QED
        BY <1>1, <1>2, <4>1, <4>2 DEF Ask
    <3> QED
      BY <3>2, <3>4 DEF HeardOf
  <2> QED
    BY <2>4, <2>5
<1> QED
  BY <1>6, <1>7 DEF KidInv

\* Every step of the kid's screen and of the server keeps the invariant.
LEMMA KidStep == KidInv /\ [K!KidNext]_kidVars => KidInv'
<1> SUFFICES ASSUME KidInv, [K!KidNext]_kidVars PROVE KidInv'
  OBVIOUS
<1>1. kid \in [Chores -> [running : BOOLEAN, awaiting : BOOLEAN, error : BOOLEAN]]
  BY DEF KidInv, K!KidTypeOK
<1>2. CASE UNCHANGED kidVars
  BY <1>2, KidUnchanged
<1>3. ASSUME NEW c \in Chores, K!handleStart(c) PROVE KidInv'
  <2>1. /\ kid' \in [Chores -> [running : BOOLEAN, awaiting : BOOLEAN, error : BOOLEAN]]
        /\ \A d \in Chores : kid'[d].running = kid[d].running /\ kid'[d].awaiting = kid[d].awaiting
    BY <1>1, <1>3 DEF K!handleStart
  <2>2. K!MutateKid("start", c, FALSE) /\ UNCHANGED entries
    BY <1>3 DEF K!handleStart
  <2> QED
    BY <2>1, <2>2, MutateKeeps
<1>4. ASSUME NEW c \in Chores, K!handleStop(c) \/ K!handleTap(c) \/ K!handleConfirmComplete(c) PROVE KidInv'
  <2>1. UNCHANGED <<entries, kid>> /\ \E hook \in {"stop", "mark"}, q \in BOOLEAN : K!MutateKid(hook, c, q)
    BY <1>4 DEF K!handleStop, K!handleTap, K!handleConfirmComplete
  <2> QED
    BY <1>1, <2>1, MutateKeeps
<1>5. ASSUME NEW c \in Chores, K!handleDismissComplete(c) PROVE KidInv'
  <2>1. UNCHANGED <<entries, asks, presses, unheard>> /\ kid' = [kid EXCEPT ![c] = K!NoTimer]
    BY <1>5 DEF K!handleDismissComplete
  <2>2. K!KidTypeOK'
    BY <1>1, <2>1 DEF KidInv, K!KidTypeOK, K!NoTimer
  <2>3. ASSUME NEW d \in Chores, HeardOf(d) PROVE HeardOf(d)'
    <3>1. Matches(d) => Matches(d)'
      BY <1>1, <2>1 DEF Matches, K!NoTimer
    <3>2. TimingOf(d)' = TimingOf(d) /\ \A x \in TimingOf(d) : Answers(x)' <=> Answers(x)
      BY <2>1 DEF TimingOf, Answers
    <3> QED
      BY <2>3, <3>1, <3>2 DEF HeardOf
  <2> QED
    BY <2>1, <2>2, <2>3 DEF KidInv
<1> QED
  BY <1>2, <1>3, <1>4, <1>5, ReloadKeeps, ServerKeeps, AnsweredKeeps DEF K!KidNext

-----------------------------------------------------------------------------
(* The routine.                                                            *)

\* The inductive invariant of the routine.  Ids of steps are used once, so a ticked step
\* that was deleted never comes back, and a completion is of a step the routine has.
RunInv ==
    /\ R!RunTypeOK
    /\ \A r \in R!Routines : routines.list.steps[r] \subseteq R!StepsOf(r) \ routines.fresh
    /\ R!First(cache) # R!None =>
          /\ cache \in R!Lists /\ tapped.last = R!First(cache)
          /\ \A r \in R!Routines : cache.steps[r] \subseteq R!StepsOf(r) \ routines.fresh
    /\ tapped.last = R!None => tapped.done = {}
    /\ tapped.last # R!None => tapped.done \subseteq R!StepsOf(tapped.last) \ routines.fresh
    /\ \A x \in comps : \E r \in R!Routines : x[1] \in routines.list.steps[r]
    /\ R!TickOnRecord

\* The steps of the two routines, whose ids are disjoint.
LEMMA StepFacts ==
    /\ R!StepsOf(1) = {1, 2} /\ R!StepsOf(2) = {3, 4} /\ R!Steps = {1, 2, 3, 4}
    /\ \A r \in R!Routines : R!StepsOf(r) \subseteq R!Steps
    /\ \A r, q \in R!Routines : \A s \in R!StepsOf(r) : s \in R!StepsOf(q) => r = q
<1>1. R!StepsOf(1) = {1, 2} /\ R!StepsOf(2) = {3, 4}
  BY DEF R!StepsOf
<1>2. R!Steps = R!StepsOf(1) \cup R!StepsOf(2)
  BY DEF R!Steps, R!Routines
<1> QED
  BY <1>1, <1>2 DEF R!Routines

\* The routine shown is one of the routines of a list.
LEMMA FirstType ==
    ASSUME NEW c, c \in R!Lists \/ c = [order |-> <<>>]
    PROVE  R!First(c) \in R!Routines \cup {R!None} /\ (R!First(c) # R!None => c \in R!Lists)
<1>1. c.order \in R!Orders
  BY DEF R!Lists, R!Orders
<1> QED
  BY <1>1 DEF R!First, R!Orders, R!Routines, R!None

\* The screen opens with nothing ticked.
LEMMA RunInitInv == R!RunInit => RunInv
<1> SUFFICES ASSUME R!RunInit PROVE RunInv
  OBVIOUS
<1>1. PICK used \in {{1, 3}, {1, 2, 3}}, o \in {<<1, 2>>, <<2>>}, own \in {{1}, {1, 2}} :
         routines = [list |-> [order |-> o, steps |-> [r \in R!Routines |-> R!StepsOf(r) \cap used], owned |-> own],
                     fresh |-> R!Steps \ used]
  BY DEF R!RunInit
<1> DEFINE st == [r \in R!Routines |-> R!StepsOf(r) \cap used]
           l == [order |-> o, steps |-> st, owned |-> own]
<1>2. st \in [R!Routines -> SUBSET R!Steps] /\ \A r \in R!Routines : st[r] \subseteq R!StepsOf(r) /\ st[r] \subseteq used
  BY StepFacts
<1> HIDE DEF st
<1>3. l \in R!Lists /\ l.steps = st
  BY <1>2 DEF R!Lists, R!Orders, R!Routines
<1>4. routines.list = l /\ routines.fresh = R!Steps \ used /\ routines = [list |-> l, fresh |-> R!Steps \ used]
  BY <1>1 DEF st
<1> HIDE DEF l
<1>5. routines \in [list : R!Lists, fresh : SUBSET R!Steps]
  BY <1>3, <1>4
<1>6. /\ comps = {} /\ cache = [order |-> <<>>] /\ tapped = [done |-> {}, last |-> R!None]
      /\ marks = {} /\ dropped = {} /\ day = 0 /\ rounds = 0
  BY DEF R!RunInit
<1>7. R!RunTypeOK
  BY <1>5, <1>6, BoundsAssumption DEF R!RunTypeOK, R!Days
<1>8. R!First(cache) = R!None
  BY <1>6 DEF R!First
<1> QED
  BY <1>2, <1>3, <1>4, <1>6, <1>7, <1>8 DEF RunInv, R!TickOnRecord

\* Every step keeps the invariant.
LEMMA RunStep == RunInv /\ [R!RunNext]_runVars => RunInv'
<1> SUFFICES ASSUME RunInv, [R!RunNext]_runVars PROVE RunInv'
  OBVIOUS
<1>0. /\ routines \in [list : R!Lists, fresh : SUBSET R!Steps]
      /\ comps \subseteq R!Steps \X R!Days
      /\ cache \in R!Lists \/ cache = [order |-> <<>>]
      /\ tapped \in [done : SUBSET R!Steps, last : R!Routines \cup {R!None}]
      /\ marks \subseteq [n : 1..MaxRounds, s : R!Steps]
      /\ dropped \subseteq R!Steps /\ day \in R!Days /\ rounds \in 0..MaxRounds
  BY DEF RunInv, R!RunTypeOK
<1>1. CASE UNCHANGED runVars
  BY <1>1 DEF runVars, RunInv, R!RunTypeOK, R!First, R!TickOnRecord
<1>2. CASE R!useRoutines
  <2>1. cache' = routines.list /\ tapped' = R!Reseed(routines.list) /\ UNCHANGED <<routines, comps, marks, dropped, day, rounds>>
    BY <1>2 DEF R!useRoutines
  <2> DEFINE f == R!First(routines.list)
  <2>2. f \in R!Routines \cup {R!None} /\ routines.list \in R!Lists
    BY <1>0, FirstType
  <2>3. \/ f \in {R!None, tapped.last} /\ tapped' = tapped
        \/ f \notin {R!None, tapped.last} /\ tapped' = [done |-> {}, last |-> f]
    BY <2>1 DEF R!Reseed
  <2>4. tapped' \in [done : SUBSET R!Steps, last : R!Routines \cup {R!None}] /\ tapped'.done \subseteq tapped.done
    BY <1>0, <2>2, <2>3
  <2>5. R!RunTypeOK'
    BY <1>0, <2>1, <2>2, <2>4 DEF R!RunTypeOK
  <2>6. R!First(cache)' = f
    BY <2>1 DEF R!First
  <2>7. f # R!None => tapped'.last = f
    BY <2>3
  <2>8. /\ tapped'.last = R!None => tapped'.done = {}
        /\ tapped'.last # R!None => tapped'.done \subseteq R!StepsOf(tapped'.last) \ routines.fresh
    BY <2>3 DEF RunInv
  <2>9. R!TickOnRecord'
    BY <2>1, <2>4 DEF RunInv, R!TickOnRecord
  <2> QED
    BY <2>1, <2>2, <2>5, <2>6, <2>7, <2>8, <2>9 DEF RunInv
<1>3. CASE R!Remount
  <2>1. /\ cache' = [order |-> <<>>] /\ tapped' = [done |-> {}, last |-> R!None] /\ rounds < MaxRounds /\ rounds' = rounds + 1
        /\ UNCHANGED <<routines, comps, marks, dropped, day>>
    BY <1>3 DEF R!Remount, R!Round
  <2>2. R!First(cache)' = R!None
    BY <2>1 DEF R!First
  <2>3. R!RunTypeOK'
    BY <1>0, <2>1, BoundsAssumption DEF R!RunTypeOK
  <2> QED
    BY <2>1, <2>2, <2>3 DEF RunInv, R!TickOnRecord
<1>4. CASE R!Midnight
  <2>1. /\ day' \in R!Days /\ rounds < MaxRounds /\ rounds' = rounds + 1
        /\ UNCHANGED <<routines, comps, cache, tapped, marks, dropped>>
    BY <1>4 DEF R!Midnight, R!Round
  <2>2. R!First(cache)' = R!First(cache)
    BY <2>1 DEF R!First
  <2>3. R!RunTypeOK'
    BY <1>0, <2>1, BoundsAssumption DEF R!RunTypeOK
  <2> QED
    BY <2>1, <2>2, <2>3 DEF RunInv, R!TickOnRecord
<1>5. ASSUME NEW s \in R!Steps, R!handleTapStep(s) PROVE RunInv'
  <2>1. /\ rounds < MaxRounds /\ rounds' = rounds + 1 /\ s \in R!StepCards
        /\ UNCHANGED <<routines, comps, cache, dropped, day>>
        /\ tapped' = [tapped EXCEPT !.done = IF s \in @ THEN @ \ {s} ELSE @ \cup {s}]
        /\ marks' = IF s \in tapped.done THEN marks ELSE marks \cup {[n |-> rounds + 1, s |-> s]}
    BY <1>5 DEF R!handleTapStep, R!Round
  <2>2. R!First(cache) # R!None /\ s \in cache.steps[R!First(cache)]
    BY <2>1 DEF R!StepCards, R!RoutineKid
  <2>3. R!First(cache) \in R!Routines /\ R!First(cache)' = R!First(cache)
    BY <1>0, <2>1, <2>2, FirstType DEF R!First
  <2>4. s \in R!StepsOf(tapped.last) \ routines.fresh /\ tapped.last # R!None
    BY <2>2, <2>3 DEF RunInv
  <2>5. /\ tapped'.last = tapped.last
        /\ tapped'.done \subseteq tapped.done \cup {s} /\ (s \in tapped.done => s \notin tapped'.done)
        /\ tapped' \in [done : SUBSET R!Steps, last : R!Routines \cup {R!None}]
    BY <1>0, <2>1
  <2>6. marks' \subseteq [n : 1..MaxRounds, s : R!Steps] /\ marks \subseteq marks'
        /\ (s \notin tapped.done => \E m \in marks' : m.s = s)
    <3> DEFINE new == [n |-> rounds + 1, s |-> s]
    <3>1. new \in [n : 1..MaxRounds, s : R!Steps] /\ new.s = s
      BY <1>0, <2>1, BoundsAssumption
    <3>2. marks' = IF s \in tapped.done THEN marks ELSE marks \cup {new}
      BY <2>1
    <3> HIDE DEF new
    <3> QED
      BY <1>0, <3>1, <3>2
  <2>7. R!RunTypeOK'
    BY <1>0, <2>1, <2>5, <2>6, BoundsAssumption DEF R!RunTypeOK
  <2>8. R!TickOnRecord'
    <3> SUFFICES ASSUME NEW x \in tapped'.done
                 PROVE  \/ x \in dropped \/ \E m \in marks' : m.s = x
                        \/ \E d \in R!Days : <<x, d>> \in comps
                        \/ \A r \in R!Routines : x \notin routines.list.steps[r]
      BY <2>1 DEF R!TickOnRecord
    <3>1. CASE x \in tapped.done
      BY <2>6, <3>1 DEF RunInv, R!TickOnRecord
    <3>2. CASE x \notin tapped.done
      BY <2>5, <2>6, <3>2
    <3> QED
      BY <3>1, <3>2
  <2>9. tapped'.done \subseteq R!StepsOf(tapped'.last) \ routines.fresh
    BY <2>4, <2>5 DEF RunInv
  <2> QED
    BY <2>1, <2>3, <2>4, <2>5, <2>7, <2>8, <2>9 DEF RunInv
<1>6. ASSUME NEW m \in marks, R!MarkComplete(m) PROVE RunInv'
  <2>1. marks' = marks \ {m} /\ m.s \in R!Steps /\ UNCHANGED <<routines, cache, tapped, day, rounds>>
    BY <1>0, <1>6 DEF R!MarkComplete
  <2>2. \/ /\ \E r \in R!Routines : m.s \in routines.list.steps[r]
           /\ comps' = comps \cup {<<m.s, day>>} /\ dropped' = dropped
        \/ dropped' = dropped \cup {m.s} /\ comps' = comps
    BY <1>6 DEF R!MarkComplete
  <2>3. R!First(cache)' = R!First(cache)
    BY <2>1 DEF R!First
  <2>4. R!RunTypeOK'
    BY <1>0, <2>1, <2>2 DEF R!RunTypeOK
  <2>5. comps \subseteq comps' /\ dropped \subseteq dropped' /\ (m.s \in dropped' \/ \E d \in R!Days : <<m.s, d>> \in comps')
    BY <1>0, <2>2
  <2>6. R!TickOnRecord'
    BY <2>1, <2>5 DEF RunInv, R!TickOnRecord
  <2>7. \A x \in comps' : \E r \in R!Routines : x[1] \in routines.list.steps[r]
    BY <2>2 DEF RunInv
  <2> QED
    BY <2>1, <2>3, <2>4, <2>6, <2>7 DEF RunInv
<1>7. ASSUME NEW r \in R!Routines, R!AddStep(r) PROVE RunInv'
  <2>1. PICK s \in R!StepsOf(r) \cap routines.fresh :
           routines' = [list |-> [routines.list EXCEPT !.steps[r] = @ \cup {s}], fresh |-> routines.fresh \ {s}]
    BY <1>7 DEF R!AddStep
  <2>2. rounds < MaxRounds /\ rounds' = rounds + 1 /\ UNCHANGED <<comps, cache, tapped, marks, dropped, day>>
    BY <1>7 DEF R!AddStep, R!Round
  <2>3. routines.list \in R!Lists /\ s \in R!Steps
    BY <1>0
  <2> DEFINE l == [routines.list EXCEPT !.steps[r] = @ \cup {s}]
  <2>4. /\ l \in R!Lists /\ \A q \in R!Routines : l.steps[q] = IF q = r THEN routines.list.steps[q] \cup {s} ELSE routines.list.steps[q]
    BY <2>3 DEF R!Lists
  <2>5. routines'.list = l /\ routines'.fresh = routines.fresh \ {s} /\ routines' = [list |-> l, fresh |-> routines.fresh \ {s}]
    BY <2>1
  <2> HIDE DEF l
  <2>6. R!RunTypeOK'
    BY <1>0, <2>2, <2>4, <2>5, BoundsAssumption DEF R!RunTypeOK
  <2>7. \A q \in R!Routines : l.steps[q] \subseteq R!StepsOf(q) \ (routines.fresh \ {s})
    BY <2>1, <2>4 DEF RunInv
  <2>8. R!First(cache)' = R!First(cache)
    BY <2>2 DEF R!First
  <2>9. s \notin tapped.done
    BY <2>1 DEF RunInv
  <2>10. R!TickOnRecord'
    <3> SUFFICES ASSUME NEW x \in tapped.done
                 PROVE  \/ x \in dropped \/ \E m \in marks : m.s = x
                        \/ \E d \in R!Days : <<x, d>> \in comps
                        \/ \A q \in R!Routines : x \notin l.steps[q]
      BY <2>2, <2>5 DEF R!TickOnRecord
    <3>1. x # s
      BY <2>9
    <3> QED
      BY <2>4, <3>1 DEF RunInv, R!TickOnRecord
  <2>11. \A x \in comps : \E q \in R!Routines : x[1] \in l.steps[q]
    BY <2>4 DEF RunInv
  <2>12. R!First(cache) # R!None => \A q \in R!Routines : cache.steps[q] \subseteq R!StepsOf(q) \ (routines.fresh \ {s})
    BY DEF RunInv
  <2>13. tapped.last # R!None => tapped.done \subseteq R!StepsOf(tapped.last) \ (routines.fresh \ {s})
    BY DEF RunInv
  <2> QED
    BY <2>2, <2>5, <2>6, <2>7, <2>8, <2>10, <2>11, <2>12, <2>13 DEF RunInv
<1>8. ASSUME NEW r \in R!Routines, NEW s \in R!Steps, R!DeleteStep(r, s) PROVE RunInv'
  <2>1. /\ rounds < MaxRounds /\ rounds' = rounds + 1 /\ s \in routines.list.steps[r]
        /\ routines' = [routines EXCEPT !.list.steps[r] = @ \ {s}]
        /\ comps' = {c \in comps : c[1] # s} /\ UNCHANGED <<cache, tapped, marks, dropped, day>>
    BY <1>8 DEF R!DeleteStep, R!Round
  <2> DEFINE l == [routines.list EXCEPT !.steps[r] = @ \ {s}]
  <2>3. routines.list \in R!Lists
    BY <1>0
  <2>4. /\ l \in R!Lists /\ \A q \in R!Routines : l.steps[q] = IF q = r THEN routines.list.steps[q] \ {s} ELSE routines.list.steps[q]
    BY <2>3 DEF R!Lists
  <2>5. routines'.list = l /\ routines'.fresh = routines.fresh /\ routines' = [routines EXCEPT !.list = l]
    BY <1>0, <2>1
  <2> HIDE DEF l
  <2>6. R!RunTypeOK'
    <3>1. routines' \in [list : R!Lists, fresh : SUBSET R!Steps]
      BY <1>0, <2>4, <2>5
    <3>2. comps' \subseteq R!Steps \X R!Days
      BY <1>0, <2>1
    <3> QED
      BY <1>0, <2>1, <3>1, <3>2, BoundsAssumption DEF R!RunTypeOK
  <2>7. \A q \in R!Routines : l.steps[q] \subseteq R!StepsOf(q) \ routines.fresh
    BY <2>4 DEF RunInv
  <2>8. R!First(cache)' = R!First(cache)
    BY <2>1 DEF R!First
  <2>9. \A q \in R!Routines : s \notin l.steps[q]
    <3>1. \A q \in R!Routines : s \in routines.list.steps[q] => q = r
      BY <2>1, StepFacts DEF RunInv
    <3> QED
      BY <2>4, <3>1
  <2>10. R!TickOnRecord'
    <3> SUFFICES ASSUME NEW x \in tapped.done
                 PROVE  \/ x \in dropped \/ \E m \in marks : m.s = x
                        \/ \E d \in R!Days : <<x, d>> \in comps'
                        \/ \A q \in R!Routines : x \notin l.steps[q]
      BY <2>1, <2>5 DEF R!TickOnRecord
    <3>1. CASE x = s
      BY <2>9, <3>1
    <3>2. CASE x # s
      BY <2>1, <2>4, <3>2 DEF RunInv, R!TickOnRecord
    <3> QED
      BY <3>1, <3>2
  <2>11. \A x \in comps' : \E q \in R!Routines : x[1] \in l.steps[q]
    BY <2>1, <2>4 DEF RunInv
  <2> QED
    BY <2>1, <2>5, <2>6, <2>7, <2>8, <2>10, <2>11 DEF RunInv
<1>9. ASSUME NEW o \in {<<1, 2>>, <<2, 1>>, << 2 >>}, R!UpdateRoutine(o) PROVE RunInv'
  <2>1. /\ rounds < MaxRounds /\ rounds' = rounds + 1 /\ routines' = [routines EXCEPT !.list.order = o]
        /\ UNCHANGED <<comps, cache, tapped, marks, dropped, day>>
    BY <1>9 DEF R!UpdateRoutine, R!Round
  <2> DEFINE l == [routines.list EXCEPT !.order = o]
  <2>2. routines.list \in R!Lists
    BY <1>0
  <2>3. l \in R!Lists /\ l.steps = routines.list.steps
    BY <2>2 DEF R!Lists, R!Orders
  <2>4. routines'.list = l /\ routines'.fresh = routines.fresh /\ routines' = [routines EXCEPT !.list = l]
    BY <1>0, <2>1
  <2> HIDE DEF l
  <2>5. R!RunTypeOK'
    BY <1>0, <2>1, <2>3, <2>4, BoundsAssumption DEF R!RunTypeOK
  <2>6. R!First(cache)' = R!First(cache)
    BY <2>1 DEF R!First
  <2>7. R!TickOnRecord'
    BY <2>1, <2>3, <2>4 DEF RunInv, R!TickOnRecord
  <2> QED
    BY <2>1, <2>3, <2>4, <2>5, <2>6, <2>7 DEF RunInv
<1> QED
  BY <1>1, <1>2, <1>3, <1>4, <1>5, <1>6, <1>7, <1>8, <1>9 DEF R!RunNext

\* A day on which every step that routine r has now was completed.
Full(r, d) == routines.list.steps[r] # {} /\ \A s \in routines.list.steps[r] : <<s, d>> \in comps

\* The instance counts as everyone does.
LEMMA SameCardinality == ASSUME NEW S PROVE R!Cardinality(S) = Cardinality(S)
  BY DEF R!Cardinality, Cardinality

\* A routine has finitely many steps.
LEMMA StepsFinite == ASSUME NEW r \in R!Routines PROVE IsFiniteSet(R!StepsOf(r))
<1>1. IsFiniteSet({} \cup {2 * r - 1})
  BY FS_EmptySet, FS_AddElement
<1>2. IsFiniteSet(({} \cup {2 * r - 1}) \cup {2 * r})
  BY <1>1, FS_AddElement
<1>3. R!StepsOf(r) = ({} \cup {2 * r - 1}) \cup {2 * r}
  BY DEF R!StepsOf
<1> QED
  BY <1>2, <1>3

\* Counting completions is enough: a completion is of a step the routine has, so as
\* many of them as steps are all of them (GetStreak, calculateStreak).
LEMMA CountsFull ==
    ASSUME RunInv, NEW r \in R!Routines, NEW d \in Int
    PROVE  R!CompletedDay(r, d) <=> Full(r, d)
<1> DEFINE have == routines.list.steps[r]
           did == {s \in R!StepsOf(r) : <<s, d>> \in comps}
<1>1. IsFiniteSet(R!StepsOf(r))
  BY StepsFinite
<1>2. have \subseteq R!StepsOf(r)
  BY DEF RunInv
<1>3. did \subseteq have
  <2> SUFFICES ASSUME NEW s \in R!StepsOf(r), <<s, d>> \in comps
               PROVE  s \in have
    OBVIOUS
  <2>1. PICK q \in R!Routines : s \in routines.list.steps[q]
    <3>1. <<s, d>>[1] = s
      OBVIOUS
    <3> QED
      BY <3>1 DEF RunInv
  <2>2. s \in R!StepsOf(q)
    BY <2>1 DEF RunInv
  <2> QED
    BY <2>1, <2>2, StepFacts
<1>4. R!CompletedDay(r, d) <=> Cardinality(have) > 0 /\ Cardinality(did) >= Cardinality(have)
  <2>1. R!CompletedDay(r, d) <=> R!Cardinality(have) > 0 /\ R!Cardinality(did) >= R!Cardinality(have)
    BY DEF R!CompletedDay, R!GetDailyCompletionCounts
  <2> QED
    BY <2>1, SameCardinality
<1>5. Full(r, d) <=> have # {} /\ have \subseteq did
  BY <1>2 DEF Full
<1> HIDE DEF have, did
<1>6. IsFiniteSet(have) /\ IsFiniteSet(did) /\ Cardinality(have) \in Nat /\ Cardinality(did) \in Nat
      /\ Cardinality(did) <= Cardinality(have) /\ (Cardinality(have) = Cardinality(did) => have = did)
  BY <1>1, <1>2, <1>3, FS_Subset, FS_CardinalityType
<1>7. Cardinality(have) > 0 <=> have # {}
  BY <1>6, FS_EmptySet
<1>8. Cardinality(did) >= Cardinality(have) <=> have \subseteq did
  BY <1>3, <1>6
<1> QED
  BY <1>4, <1>5, <1>7, <1>8

\* The loop of GetStreak, unrolled, stops at the first day that is not full.
LEMMA StreakOK == RunInv => R!StreakIsRun
<1> SUFFICES ASSUME RunInv, NEW r \in R!Routines
             PROVE  /\ \A d \in 0..day : d > day - R!GetStreak(r) => Full(r, d)
                    /\ day - R!GetStreak(r) >= 0 => ~Full(r, day - R!GetStreak(r))
  BY DEF R!StreakIsRun, Full
<1>1. day \in {0, 1, 2}
  BY DEF RunInv, R!RunTypeOK, R!Days
<1> DEFINE C(d) == R!CompletedDay(r, day - d)
           P(b) == b = [d \in 0..(day + 1) |-> IF d > day \/ ~C(d) THEN 0 ELSE 1 + b[d + 1]]
           b0 == [d \in 0..(day + 1) |->
                    IF d > day \/ ~C(d) THEN 0
                    ELSE 1 + (IF d + 1 > day \/ ~C(d + 1) THEN 0
                              ELSE 1 + (IF d + 2 > day \/ ~C(d + 2) THEN 0 ELSE 1))]
<1>2. R!GetStreak(r) = (CHOOSE b : P(b))[0]
  BY DEF R!GetStreak
<1>3. P(b0)
  <2> HIDE DEF C
  <2> QED
    BY <1>1
<1>4. PICK b : P(b) /\ R!GetStreak(r) = b[0]
  <2> HIDE DEF P, b0
  <2> QED
    BY <1>2, <1>3
<1>5. \A d \in 0..2 : C(d) <=> Full(r, day - d)
  BY <1>1, CountsFull
<1> HIDE DEF C
<1>6. \A d \in 0..(day + 1) : b[d] = IF d > day \/ ~C(d) THEN 0 ELSE 1 + b[d + 1]
  BY <1>4
<1> HIDE DEF P
<1>7. CASE day = 0
  <2>1. b[1] = 0 /\ b[0] = IF C(0) THEN 1 ELSE 0
    BY <1>6, <1>7
  <2> QED
    BY <1>4, <1>5, <1>7, <2>1
<1>8. CASE day = 1
  <2>1. b[2] = 0 /\ b[1] = (IF C(1) THEN 1 ELSE 0) /\ b[0] = IF C(0) THEN 1 + b[1] ELSE 0
    BY <1>6, <1>8
  <2> QED
    BY <1>4, <1>5, <1>8, <2>1
<1>9. CASE day = 2
  <2>1. b[3] = 0 /\ b[2] = (IF C(2) THEN 1 ELSE 0) /\ b[1] = (IF C(1) THEN 1 + b[2] ELSE 0)
        /\ b[0] = IF C(0) THEN 1 + b[1] ELSE 0
    BY <1>6, <1>9
  <2> QED
    BY <1>4, <1>5, <1>9, <2>1
<1> QED
  BY <1>1, <1>7, <1>8, <1>9

\* The invariant is stronger than the property.
LEMMA RunImplies == RunInv => R!RunTypeOK /\ RecordTrue
<1> SUFFICES ASSUME RunInv PROVE R!RunTypeOK /\ RecordTrue
  OBVIOUS
<1>1. ASSUME R!RoutineKid, R!StepCards = R!StepsOf(R!First(cache))
      PROVE  R!progress <= R!Cardinality(R!StepCards)
  <2>1. R!First(cache) # R!None /\ tapped.last = R!First(cache) /\ tapped.done \subseteq R!StepCards
    BY <1>1 DEF RunInv, R!RoutineKid
  <2>2. IsFiniteSet(R!StepCards)
    <3>1. R!First(cache) \in R!Routines
      BY <2>1, FirstType DEF RunInv, R!RunTypeOK
    <3> QED
      BY <1>1, <3>1, StepsFinite
  <2> QED
    <3>1. Cardinality(tapped.done) <= Cardinality(R!StepCards)
      BY <2>1, <2>2, FS_Subset
    <3> QED
      BY <3>1, SameCardinality DEF R!progress
<1>2. R!TicksOfShown
  <2>1. /\ R!First(cache) # R!None => tapped.last = R!First(cache)
        /\ tapped.last = R!None => tapped.done = {}
        /\ tapped.last # R!None => tapped.done \subseteq R!StepsOf(tapped.last)
    BY DEF RunInv
  <2> QED
    BY <1>1, <2>1 DEF R!TicksOfShown
<1> QED
  BY <1>2, StreakOK DEF RunInv, RecordTrue, R!RecordTrue

-----------------------------------------------------------------------------
(* The notes.                                                              *)

\* A board pinned by time n, newest first.
Board(s, n) ==
    /\ s \in Seq(1..n) /\ Len(s) <= MaxNotes
    /\ \A i, j \in 1..Len(s) : i < j => s[i] > s[j]

\* A tab.
Tab == [open : BOOLEAN, notes : Seq(Nat), draft : BOOLEAN, author : BOOLEAN]

\* The inductive invariant of the notes.  A closed tab keeps nothing.
NotesInv ==
    /\ pins \in 0..MaxPins /\ behind \subseteq Tabs
    /\ Board(stored, pins)
    /\ tabs \in [Tabs -> Tab]
    /\ \A t \in Tabs : Board(tabs[t].notes, pins)
    /\ \A t \in Tabs : ~tabs[t].open => tabs[t] = N!Closed
    /\ N!UndisturbedIsStored

\* A board has the type the component gives it.
LEMMA BoardType ==
    ASSUME NEW s, NEW n \in 0..MaxPins, Board(s, n) PROVE s \in N!Boards
<1>1. Len(s) \in 0..MaxNotes /\ s \in [1..Len(s) -> 1..n]
  BY BoundsAssumption DEF Board
<1>2. 1..n \subseteq 1..MaxPins
  BY BoundsAssumption
<1>3. s \in [1..Len(s) -> 1..MaxPins]
  BY <1>1, <1>2
<1> QED
  BY <1>1, <1>3 DEF N!Boards

\* A board stays one as time goes on.
LEMMA BoardLater == ASSUME NEW s, NEW n \in Nat, Board(s, n) PROVE Board(s, n + 1)
<1>1. 1..n \subseteq 1..(n + 1)
  OBVIOUS
<1>2. s \in Seq(1..(n + 1))
  BY <1>1 DEF Board
<1> QED
  BY <1>2 DEF Board

\* The invariant is stronger than the property.
LEMMA NotesImplies == NotesInv => N!NotesTypeOK /\ N!BrowserKept
<1> SUFFICES ASSUME NotesInv PROVE N!NotesTypeOK /\ N!BrowserKept
  OBVIOUS
<1>1. stored \in N!Boards /\ \A t \in Tabs : tabs[t].notes \in N!Boards
  BY BoardType DEF NotesInv
<1>2. tabs \in [Tabs -> [open : BOOLEAN, notes : N!Boards, draft : BOOLEAN, author : BOOLEAN]]
  BY <1>1 DEF NotesInv, Tab
<1>3. N!NotesTypeOK
  BY <1>1, <1>2 DEF NotesInv, N!NotesTypeOK
<1>4. ASSUME NEW s, Board(s, pins), NEW i \in DOMAIN s, NEW j \in DOMAIN s, i < j
      PROVE  s[i] > s[j]
  BY <1>4 DEF Board
<1>5. N!NewestFirst
  BY <1>4 DEF NotesInv, N!NewestFirst
<1> QED
  BY <1>3, <1>5 DEF NotesInv, N!BrowserKept

\* The board is empty at first.
LEMMA NotesInitInv == N!NotesInit => NotesInv
<1> SUFFICES ASSUME N!NotesInit PROVE NotesInv
  OBVIOUS
<1>1. Board(<<>>, 0)
  BY BoundsAssumption DEF Board
<1> QED
  BY <1>1, BoundsAssumption DEF NotesInv, Tab, N!NotesInit, N!Closed, N!UndisturbedIsStored

\* A new note in front of a board, cut at the end, is a board.
LEMMA Added ==
    ASSUME NEW t \in Tabs, NotesInv, pins < MaxPins PROVE Board(N!addNote(t), pins + 1)
<1> DEFINE s == tabs[t].notes
           all == <<pins + 1>> \o s
           m == IF Len(all) < MaxNotes THEN Len(all) ELSE MaxNotes
           r == SubSeq(all, 1, m)
<1>1. N!addNote(t) = r
  BY DEF N!addNote
<1>2. Board(s, pins) /\ pins \in Nat /\ MaxNotes \in Nat
  BY BoundsAssumption DEF NotesInv
<1> HIDE DEF s
<1>3. s \in Seq(1..(pins + 1)) /\ <<pins + 1>> \in Seq(1..(pins + 1))
  BY <1>2, BoardLater DEF Board
<1>4. /\ all \in Seq(1..(pins + 1)) /\ Len(all) = Len(s) + 1 /\ all[1] = pins + 1
      /\ \A i \in 2..Len(all) : all[i] = s[i - 1]
  BY <1>2, <1>3
<1> HIDE DEF all
<1>5. m \in 0..Len(all) /\ m <= MaxNotes
  BY <1>2, <1>4
<1> HIDE DEF m
<1>6. r \in Seq(1..(pins + 1)) /\ Len(r) = m /\ \A i \in 1..m : r[i] = all[i]
  <2>1. 1 \in Int /\ m \in Int /\ \A i \in 1..m : all[i] \in 1..(pins + 1)
    <3>1. \A i \in 1..Len(all) : all[i] \in 1..(pins + 1)
      BY <1>4, ElementOfSeq
    <3> QED
      BY <1>5, <3>1
  <2>2. /\ SubSeq(all, 1, m) \in Seq(1..(pins + 1))
        /\ Len(SubSeq(all, 1, m)) = IF 1 <= m THEN m - 1 + 1 ELSE 0
        /\ \A i \in 1..(m - 1 + 1) : SubSeq(all, 1, m)[i] = all[1 + i - 1]
    BY <2>1, SubSeqProperties
  <2>3. m - 1 + 1 = m /\ \A i \in 1..m : 1 + i - 1 = i
    BY <1>5
  <2> QED
    BY <1>5, <2>2, <2>3
<1> HIDE DEF r
<1>7. ASSUME NEW i \in 1..m, NEW j \in 1..m, i < j PROVE r[i] > r[j]
  <2>1. r[i] = all[i] /\ r[j] = all[j] /\ all[j] = s[j - 1] /\ j - 1 \in 1..Len(s)
    BY <1>3, <1>4, <1>5, <1>6, <1>7
  <2>2. s[j - 1] \in 1..pins
    BY <1>2, <2>1 DEF Board
  <2>3. CASE i = 1
    BY <1>2, <1>4, <2>1, <2>2, <2>3
  <2>4. CASE i > 1
    <3>1. all[i] = s[i - 1] /\ i - 1 \in 1..Len(s) /\ i - 1 < j - 1
      BY <1>3, <1>4, <1>5, <1>7, <2>1, <2>4
    <3> QED
      BY <1>2, <2>1, <3>1 DEF Board
  <2> QED
    BY <2>3, <2>4
<1> QED
  BY <1>1, <1>5, <1>6, <1>7 DEF Board

\* A board without one of its cards is a board.
LEMMA Removed ==
    ASSUME NEW s, NEW n \in Nat, Board(s, n), NEW i \in 1..Len(s),
           NEW r, r = [k \in 1..(Len(s) - 1) |-> s[IF k < i THEN k ELSE k + 1]]
    PROVE  Board(r, n + 1)
<1>1. Len(s) \in Nat /\ Len(s) > 0 /\ Len(s) <= MaxNotes /\ \A k \in 1..Len(s) : s[k] \in 1..n
  BY DEF Board
<1>2. \A k \in 1..(Len(s) - 1) : r[k] = s[IF k < i THEN k ELSE k + 1] /\ (IF k < i THEN k ELSE k + 1) \in 1..Len(s)
  BY <1>1
<1>3. \A k \in 1..(Len(s) - 1) : r[k] \in 1..(n + 1)
  BY <1>1, <1>2
<1>4. r \in Seq(1..(n + 1)) /\ Len(r) = Len(s) - 1
  BY <1>1, <1>3
<1>5. ASSUME NEW j \in 1..(Len(s) - 1), NEW k \in 1..(Len(s) - 1), j < k PROVE r[j] > r[k]
  BY <1>1, <1>2, <1>5 DEF Board
<1>6. Len(r) <= MaxNotes
  BY <1>1, <1>4, BoundsAssumption
<1>7. \A j, k \in 1..Len(r) : j < k => r[j] > r[k]
  BY <1>4, <1>5
<1> QED
  BY <1>4, <1>6, <1>7 DEF Board

\* A tab writes its board: it is stored as the tab shows it, and the other tabs are
\* behind.
LEMMA WrittenKeeps ==
    ASSUME NotesInv, NEW t \in Tabs, NEW v \in Tab, tabs' = [tabs EXCEPT ![t] = v], tabs[t].open, v.open,
           pins' = pins + 1, pins < MaxPins, Board(v.notes, pins + 1), N!writeNotes(t, v.notes)
    PROVE  NotesInv'
<1>1. /\ stored' = v.notes /\ behind' = (behind \cup {u \in Tabs : tabs[u].open}) \ {t}
  BY DEF N!writeNotes
<1>2. pins' \in 0..MaxPins /\ pins \in Nat
  BY BoundsAssumption DEF NotesInv
<1>3. tabs'[t] = v /\ tabs' \in [Tabs -> Tab] /\ \A u \in Tabs \ {t} : tabs'[u] = tabs[u]
  BY DEF NotesInv
<1>4. \A u \in Tabs : Board(tabs'[u].notes, pins')
  <2>1. \A u \in Tabs : Board(tabs[u].notes, pins + 1)
    BY <1>2, BoardLater DEF NotesInv
  <2> QED
    BY <1>3, <2>1
<1>5. N!UndisturbedIsStored'
  BY <1>1, <1>3 DEF N!UndisturbedIsStored
<1> QED
  BY <1>1, <1>2, <1>3, <1>4, <1>5 DEF NotesInv, Board

\* Every step of the tabs keeps the invariant.
LEMMA NotesStep == NotesInv /\ [N!NotesNext]_noteVars => NotesInv'
<1> SUFFICES ASSUME NotesInv, [N!NotesNext]_noteVars PROVE NotesInv'
  OBVIOUS
<1>1. CASE UNCHANGED noteVars
  BY <1>1 DEF noteVars, NotesInv, Board, N!UndisturbedIsStored
<1>2. ASSUME NEW t \in Tabs, N!useNotes(t) PROVE NotesInv'
  <2> DEFINE v == [N!Closed EXCEPT !.open = TRUE, !.notes = stored]
  <2>1. tabs' = [tabs EXCEPT ![t] = v] /\ behind' = behind \ {t} /\ stored' = stored /\ pins' = pins
    BY <1>2 DEF N!useNotes, N!readNotes
  <2>2. v \in Tab /\ v.notes = stored /\ v.open
    <3>1. stored \in Seq(Nat)
      <4>1. stored \in Seq(1..pins) /\ 1..pins \subseteq Nat
        BY DEF NotesInv, Board
      <4> QED
        BY <4>1, SeqMonotonic
    <3> QED
      BY <3>1 DEF Tab, N!Closed
  <2> HIDE DEF v
  <2>3. tabs' \in [Tabs -> Tab] /\ tabs'[t] = v /\ \A u \in Tabs \ {t} : tabs'[u] = tabs[u]
    BY <2>1, <2>2 DEF NotesInv
  <2>4. \A u \in Tabs : Board(tabs'[u].notes, pins)
    BY <2>2, <2>3 DEF NotesInv
  <2>5. N!UndisturbedIsStored'
    BY <2>1, <2>2, <2>3 DEF NotesInv, N!UndisturbedIsStored
  <2> QED
    BY <2>1, <2>2, <2>3, <2>4, <2>5 DEF NotesInv, Board
<1>3. ASSUME NEW t \in Tabs, N!Leave(t) PROVE NotesInv'
  <2>1. /\ tabs' = [tabs EXCEPT ![t] = N!Closed] /\ behind' = behind \ {t} /\ stored' = stored
        /\ pins < MaxPins /\ pins' = pins + 1
    BY <1>3 DEF N!Leave, N!Pin
  <2>2. N!Closed \in Tab /\ N!Closed.notes = <<>> /\ ~N!Closed.open
    BY DEF Tab, N!Closed
  <2>3. tabs' \in [Tabs -> Tab] /\ tabs'[t] = N!Closed /\ \A u \in Tabs \ {t} : tabs'[u] = tabs[u]
    BY <2>1, <2>2 DEF NotesInv
  <2>4. pins \in Nat /\ pins' \in 0..MaxPins /\ Board(<<>>, pins + 1)
    BY <2>1, BoundsAssumption DEF NotesInv, Board
  <2>5. \A u \in Tabs : Board(tabs[u].notes, pins + 1)
    BY <2>4, BoardLater DEF NotesInv
  <2>6. Board(stored, pins + 1)
    BY <2>4, BoardLater DEF NotesInv
  <2>7. \A u \in Tabs : Board(tabs'[u].notes, pins')
    BY <2>1, <2>2, <2>3, <2>4, <2>5
  <2>8. N!UndisturbedIsStored'
    BY <2>1, <2>2, <2>3 DEF NotesInv, N!UndisturbedIsStored
  <2> QED
    BY <2>1, <2>3, <2>4, <2>6, <2>7, <2>8 DEF NotesInv, Board
<1>4. ASSUME NEW t \in Tabs, N!setDraft(t) \/ N!useMembers(t) PROVE NotesInv'
  <2>1. /\ UNCHANGED <<stored, pins, behind>>
        /\ tabs' = [tabs EXCEPT ![t].draft = ~@] \/ tabs' = [tabs EXCEPT ![t].author = TRUE]
    BY <1>4 DEF N!setDraft, N!useMembers
  <2>0. tabs[t].open /\ \A u \in Tabs \ {t} : tabs'[u] = tabs[u]
    BY <1>4, <2>1 DEF N!setDraft, N!useMembers, NotesInv
  <2>2. /\ tabs' \in [Tabs -> Tab]
        /\ \A u \in Tabs : tabs'[u].notes = tabs[u].notes /\ tabs'[u].open = tabs[u].open
    <3> DEFINE v == [tabs[t] EXCEPT !.draft = ~@]
               w == [tabs[t] EXCEPT !.author = TRUE]
    <3>1. tabs[t] \in Tab /\ tabs \in [Tabs -> Tab]
      BY DEF NotesInv
    <3>2. /\ v \in Tab /\ v.notes = tabs[t].notes /\ v.open = tabs[t].open
          /\ w \in Tab /\ w.notes = tabs[t].notes /\ w.open = tabs[t].open
      BY <3>1 DEF Tab
    <3>3. tabs' = [tabs EXCEPT ![t] = v] \/ tabs' = [tabs EXCEPT ![t] = w]
      BY <2>1, <3>1
    <3> HIDE DEF v, w
    <3> QED
      BY <3>1, <3>2, <3>3
  <2>3. N!UndisturbedIsStored'
    BY <2>1, <2>2 DEF NotesInv, N!UndisturbedIsStored
  <2> QED
    BY <2>0, <2>1, <2>2, <2>3 DEF NotesInv, Board
<1>5. ASSUME NEW t \in Tabs, N!handleAdd(t) PROVE NotesInv'
  <2>0. tabs[t].open
    BY <1>5 DEF N!handleAdd, NotesInv, N!Closed
  <2> DEFINE v == [tabs[t] EXCEPT !.notes = N!addNote(t), !.draft = FALSE]
  <2>1. /\ tabs' = [tabs EXCEPT ![t] = v] /\ pins < MaxPins /\ pins' = pins + 1 /\ N!writeNotes(t, N!addNote(t))
    BY <1>5 DEF N!handleAdd, N!Pin, NotesInv
  <2>2. Board(N!addNote(t), pins + 1)
    BY <2>1, Added
  <2>3. N!addNote(t) \in Seq(Nat)
    <3>1. N!addNote(t) \in Seq(1..(pins + 1)) /\ 1..(pins + 1) \subseteq Nat
      BY <2>2 DEF NotesInv, Board
    <3> QED
      BY <3>1, SeqMonotonic
  <2>4. v \in Tab /\ v.notes = N!addNote(t) /\ v.open
    BY <2>0, <2>3 DEF NotesInv, Tab
  <2> HIDE DEF v
  <2> QED
    BY <2>0, <2>1, <2>2, <2>4, WrittenKeeps
<1>6. ASSUME NEW t \in Tabs, NEW i \in 1..MaxNotes, N!removeNote(t, i) PROVE NotesInv'
  <2>0. tabs[t].open
    BY <1>6 DEF N!removeNote, N!NoteCard, NotesInv, N!Closed
  <2> DEFINE next == [k \in 1..(Len(tabs[t].notes) - 1) |-> tabs[t].notes[IF k < i THEN k ELSE k + 1]]
             v == [tabs[t] EXCEPT !.notes = next]
  <2>1. /\ tabs' = [tabs EXCEPT ![t] = v] /\ pins < MaxPins /\ pins' = pins + 1 /\ N!writeNotes(t, next)
        /\ i \in DOMAIN tabs[t].notes
    BY <1>6 DEF N!removeNote, N!NoteCard, N!Pin, NotesInv
  <2>2. Board(tabs[t].notes, pins) /\ i \in 1..Len(tabs[t].notes) /\ pins \in Nat
    BY <2>1 DEF NotesInv, Board
  <2>3. Board(next, pins + 1)
    BY <2>2, Removed
  <2> HIDE DEF next
  <2>4. next \in Seq(Nat)
    <3>1. next \in Seq(1..(pins + 1)) /\ 1..(pins + 1) \subseteq Nat
      BY <2>3 DEF NotesInv, Board
    <3> QED
      BY <3>1, SeqMonotonic
  <2>5. v \in Tab /\ v.notes = next /\ v.open
    BY <2>0, <2>4 DEF NotesInv, Tab
  <2> HIDE DEF v
  <2> QED
    BY <2>0, <2>1, <2>3, <2>5, WrittenKeeps
<1> QED
  BY <1>1, <1>2, <1>3, <1>4, <1>5, <1>6 DEF N!NotesNext

-----------------------------------------------------------------------------
(* The hourly rate.                                                        *)

\* The inductive invariant of the rate: a save acknowledged by the server, told to the
\* user or about to be, is stored.
RateInv ==
    /\ H!RateTypeOK
    /\ told \notin {<<>>, <<H!None, H!None>>} => rate = told
    /\ put.st = "ok" /\ put.n > 0 /\ put.rate # <<H!None, H!None>> => rate = put.rate

\* No save is under way at first.
LEMMA RateInitInv == H!RateInit => RateInv
  BY BoundsAssumption DEF H!RateInit, RateInv, H!RateTypeOK, H!Rates, H!Amounts, H!None, H!Bad, H!Nothing, H!Seeded, H!RedactHourlyRate

\* The invariant is stronger than the property.
LEMMA RateImplies == RateInv => SavedIsStored /\ H!RateTypeOK
  BY DEF RateInv, SavedIsStored, H!SavedIsStored

\* Every step keeps the invariant: a save that was acknowledged and not overwritten
\* since is what the server holds.
LEMMA RateStep == RateInv /\ [H!RateNext]_rateVars => RateInv'
<1> SUFFICES ASSUME RateInv, [H!RateNext]_rateVars PROVE RateInv'
  OBVIOUS
<1> USE BoundsAssumption DEF RateInv, H!RateTypeOK
<1>1. CASE H!setDollars
  BY <1>1 DEF H!setDollars, H!Edit
<1>2. CASE H!handleSave
  <2>1. /\ sets' = sets + 1 /\ sets < MaxSets /\ UNCHANGED <<rate, viewer, known, told>>
        /\ \E e \in BOOLEAN : field' = [field EXCEPT !.error = e]
    BY <1>2 DEF H!handleSave, H!Edit
  <2>2. \/ put' = put
        \/ /\ put' = [n |-> sets + 1, rate |-> <<H!dollarStringToCents(field.min), H!dollarStringToCents(field.max)>>, st |-> "sent"]
           /\ field.min # H!Bad /\ field.max # H!Bad
    BY <1>2 DEF H!handleSave
  <2>3. put' = put \/ (put' \in [n : 0..MaxSets, rate : H!Rates, st : {"none", "sent", "ok", "failed"}] /\ put'.st = "sent")
    BY <2>1, <2>2 DEF H!Rates, H!dollarStringToCents
  <2> QED
    BY <2>1, <2>3
<1>3. CASE H!Update
  BY <1>3 DEF H!Update, H!UpdateHourlyRate
<1>4. CASE H!Saved
  <2>1. put' = H!Nothing /\ UNCHANGED <<rate, viewer, known, sets>>
    BY <1>4 DEF H!Saved
  <2>2. /\ H!Nothing \in [n : 0..MaxSets, rate : H!Rates, st : {"none", "sent", "ok", "failed"}]
        /\ H!Nothing.st = "none"
    BY DEF H!Nothing, H!Rates, H!Amounts
  <2>3. \/ told' = told
        \/ told' = put.rate /\ put.st = "ok" /\ put.n > 0
    BY <1>4 DEF H!Saved
  <2>4. told' \in H!Rates \cup {<<>>} /\ (told' \notin {<<>>, <<H!None, H!None>>} => rate' = told')
    BY <2>1, <2>3
  <2>5. field' = [field EXCEPT !.flash = TRUE] \/ field' = [field EXCEPT !.error = TRUE]
    BY <1>4 DEF H!Saved
  <2> QED
    BY <2>1, <2>2, <2>4, <2>5
<1>5. CASE H!FlashEnds
  BY <1>5 DEF H!FlashEnds
<1>6. CASE H!MembersLand
  BY <1>6 DEF H!MembersLand, H!RedactHourlyRate, H!Seeded, H!Rates, H!Amounts
<1>7. CASE H!OtherDevice
  BY <1>7 DEF H!OtherDevice, H!Edit
<1>8. CASE UNCHANGED rateVars
  BY <1>8 DEF rateVars
<1> QED
  BY <1>1, <1>2, <1>3, <1>4, <1>5, <1>6, <1>7, <1>8 DEF H!RateNext

-----------------------------------------------------------------------------
(* The AI keys.                                                            *)

\* A tab's page.
View == [page : {"other", "settings", "plan"}, keys : A!KeyRings, draft : A!KeyRings,
         enabled : BOOLEAN, toast : BOOLEAN,
         test : [A!Providers -> {"idle", "testing", "ok", "error"}],
         status : {"idle", "loading", "ok", "error", "unconfigured"}]

\* A call of a provider.
Call == [tab : Tabs, kind : {"test", "suggest"}, to : A!Providers,
         key : UNION {A!KeysOf(p) : p \in A!Providers}, n : 0..MaxUses]

\* The page of tab t.
TabOK(t) ==
    /\ views[t].page # "other" /\ mail[t] = <<>> /\ t \notin unsaved => views[t].keys = disk.keys
    /\ \A p \in A!Providers : views[t].test[p] = "testing" =>
          \E c \in calls : c.tab = t /\ c.kind = "test" /\ c.to = p
    /\ views[t].status = "loading" =>
          views[t].page = "plan" /\ \E c \in calls : c.tab = t /\ c.kind = "suggest"
    /\ views[t].toast => toasts[t] > 0

\* The types.
KeyTypes ==
    /\ disk \in [keys : A!KeyRings, enabled : BOOLEAN] /\ unsaved \subseteq Tabs
    /\ mail \in [Tabs -> Seq(A!KeyRings)]
    /\ views \in [Tabs -> View] /\ calls \subseteq Call
    /\ toasts \in [Tabs -> Nat] /\ uses \in 0..MaxUses

\* The inductive invariant of the keys.
KeysInv ==
    /\ KeyTypes
    /\ A!KeyGoesHome
    /\ \A t \in Tabs : TabOK(t)

\* The invariant is stronger than the properties.
LEMMA KeysImplies == KeysInv => A!KeysTypeOK /\ A!BrowserKept
<1> SUFFICES ASSUME KeysInv PROVE A!KeysTypeOK /\ A!BrowserKept
  OBVIOUS
<1>1. \A t \in Tabs : \A i \in DOMAIN mail[t] : mail[t][i] \in A!KeyRings
  BY DEF KeysInv, KeyTypes
<1>2. A!KeysTypeOK
  BY <1>1 DEF KeysInv, KeyTypes, Call, View, A!KeysTypeOK
<1>3. A!KeysSettle /\ A!NobodyStuck
  BY DEF KeysInv, TabOK, A!KeysSettle, A!NobodyStuck
<1> QED
  BY <1>2, <1>3 DEF KeysInv, A!BrowserKept

\* A ring holds a provider's own key, or none.
LEMMA RingValue ==
    ASSUME NEW r \in A!KeyRings, NEW p \in A!Providers
    PROVE  r[p] = A!None \/ r[p] \in A!KeysOf(p)
  BY DEF A!KeyRings

\* A ring with another key of the same provider is a ring.
LEMMA RingUpdate ==
    ASSUME NEW r \in A!KeyRings, NEW p \in A!Providers, NEW key, key = A!None \/ key \in A!KeysOf(p)
    PROVE  [r EXCEPT ![p] = key] \in A!KeyRings
<1> DEFINE q == [r EXCEPT ![p] = key]
           U == {A!None} \cup UNION {A!KeysOf(x) : x \in A!Providers}
<1>1. key \in U
  OBVIOUS
<1>2. r \in [A!Providers -> U] /\ \A x \in A!Providers : r[x] \in {A!None} \cup A!KeysOf(x)
  BY DEF A!KeyRings
<1>3. q \in [A!Providers -> U]
  BY <1>1, <1>2
<1>4. \A x \in A!Providers : q[x] \in {A!None} \cup A!KeysOf(x)
  BY <1>2
<1> QED
  BY <1>3, <1>4 DEF A!KeyRings

\* The rings the tabs may find.
LEMMA NoKeysRing == A!NoKeys \in A!KeyRings /\ [p \in A!Providers |-> <<p, 1>>] \in A!KeyRings
<1>1. A!NoKeys \in A!KeyRings
  BY DEF A!KeyRings, A!NoKeys
<1> DEFINE q == [p \in A!Providers |-> <<p, 1>>]
<1>2. \A p \in A!Providers : q[p] \in A!KeysOf(p)
  BY BoundsAssumption DEF A!KeysOf
<1>3. q \in A!KeyRings
  <2> HIDE DEF q
  <2>1. q \in [A!Providers -> UNION {A!KeysOf(x) : x \in A!Providers}]
    <3>1. q = [p \in A!Providers |-> q[p]]
      BY DEF q
    <3> QED
      BY <1>2, <3>1
  <2> QED
    BY <1>2, <2>1 DEF A!KeyRings
<1> QED
  BY <1>1, <1>3

\* A page mounts with the stored keys and awaits nothing.
LEMMA MountedView ==
    ASSUME NEW page \in {"other", "settings", "plan"}, disk \in [keys : A!KeyRings, enabled : BOOLEAN]
    PROVE  /\ A!Mounted(page) \in View /\ A!Mounted(page).page = page
           /\ page # "other" => A!Mounted(page).keys = disk.keys
           /\ A!Mounted(page).toast = FALSE /\ A!Mounted(page).status = "idle"
           /\ \A p \in A!Providers : A!Mounted(page).test[p] = "idle"
<1>1. A!NoKeys \in A!KeyRings
  BY NoKeysRing
<1> QED
  BY <1>1 DEF A!Mounted, A!AtRest, A!readKeys, A!isAIEnabled, View

\* The tabs mount.
LEMMA KeysInitInv == A!KeysInit => KeysInv
<1> SUFFICES ASSUME A!KeysInit PROVE KeysInv
  OBVIOUS
<1>1. disk \in [keys : A!KeyRings, enabled : BOOLEAN]
  <2>1. disk \in [keys : {A!NoKeys, [p \in A!Providers |-> <<p, 1>>]}, enabled : {TRUE}]
    BY DEF A!KeysInit
  <2> QED
    BY <2>1, NoKeysRing
<1>2. \A t \in Tabs : \E page \in {"other", "settings"} : views[t] = A!Mounted(page)
  BY DEF A!KeysInit
<1>3. ASSUME NEW t \in Tabs
      PROVE  views[t] \in View /\ TabOK(t)
  <2>1. PICK page \in {"other", "settings"} : views[t] = A!Mounted(page)
    BY <1>2
  <2>2. page \in {"other", "settings", "plan"}
    OBVIOUS
  <2> QED
    BY <1>1, <2>1, <2>2, MountedView DEF TabOK
<1>4. views \in [Tabs -> View] /\ mail \in [Tabs -> Seq(A!KeyRings)] /\ toasts \in [Tabs -> Nat]
  BY <1>3 DEF A!KeysInit
<1>5. KeyTypes
  BY <1>1, <1>4, BoundsAssumption DEF KeyTypes, A!KeysInit
<1>7. A!KeyGoesHome
  BY DEF A!KeyGoesHome, A!KeysInit
<1> QED
  BY <1>3, <1>5, <1>7 DEF KeysInv

\* A tab is not disturbed by a step elsewhere, unless an event is on its way to it.
LEMMA OtherTab ==
    ASSUME NEW u \in Tabs, TabOK(u), views'[u] = views[u], toasts'[u] = toasts[u],
           mail'[u] # <<>> \/ (mail'[u] = mail[u] /\ disk'.keys = disk.keys),
           u \in unsaved => u \in unsaved',
           \A c \in calls : c.tab = u => c \in calls'
    PROVE  TabOK(u)'
  BY DEF TabOK

\* Visit.
LEMMA VisitKeeps ==
    ASSUME KeysInv, NEW t \in Tabs, NEW page \in {"other", "settings", "plan"}, A!Visit(t, page)
    PROVE  KeysInv'
<1>1. /\ uses < MaxUses /\ uses' = uses + 1 /\ views' = [views EXCEPT ![t] = A!Mounted(page)]
      /\ calls' = {c \in calls : c.tab # t} /\ toasts' = [toasts EXCEPT ![t] = 0]
      /\ unsaved' = unsaved \ {t} /\ disk' = disk /\ mail' = mail
  BY DEF A!Visit, A!Use
<1>2. KeyTypes
  BY DEF KeysInv
<1>3. /\ A!Mounted(page) \in View /\ (page # "other" => A!Mounted(page).keys = disk.keys)
      /\ A!Mounted(page).toast = FALSE /\ A!Mounted(page).status = "idle" /\ A!Mounted(page).page = page
      /\ \A p \in A!Providers : A!Mounted(page).test[p] = "idle"
  BY <1>2, MountedView DEF KeyTypes
<1>4. KeyTypes'
  BY <1>1, <1>2, <1>3, BoundsAssumption DEF KeyTypes
<1>5. A!KeyGoesHome'
  BY <1>1 DEF KeysInv, A!KeyGoesHome, A!KeysOf
<1>6. TabOK(t)'
  <2>1. views'[t] = A!Mounted(page)
    BY <1>1, <1>2 DEF KeyTypes
  <2> QED
    BY <1>1, <1>3, <2>1 DEF TabOK
<1>7. ASSUME NEW u \in Tabs, u # t PROVE TabOK(u)'
  <2>1. views'[u] = views[u] /\ toasts'[u] = toasts[u] /\ TabOK(u)
    BY <1>1, <1>2, <1>7 DEF KeyTypes, KeysInv
  <2> QED
    BY <1>1, <1>7, <2>1, OtherTab
<1> QED
  BY <1>4, <1>5, <1>6, <1>7 DEF KeysInv

\* onStorage.
LEMMA StorageKeeps == ASSUME KeysInv, NEW t \in Tabs, A!onStorage(t) PROVE KeysInv'
<1>1. /\ mail[t] # <<>> /\ mail' = [mail EXCEPT ![t] = Tail(@)] /\ UNCHANGED <<disk, calls, toasts, uses>>
      /\ \/ views[t].page = "other" /\ UNCHANGED <<views, unsaved>>
         \/ views' = [views EXCEPT ![t].keys = disk.keys] /\ unsaved' = unsaved \ {t}
  BY DEF A!onStorage, A!Heard, A!readKeys
<1>2. KeyTypes
  BY DEF KeysInv
<1>3. KeyTypes'
  <2>1. Tail(mail[t]) \in Seq(A!KeyRings)
    BY <1>1, <1>2 DEF KeyTypes
  <2>2. mail' \in [Tabs -> Seq(A!KeyRings)]
    BY <1>1, <1>2, <2>1 DEF KeyTypes
  <2>3. [views[t] EXCEPT !.keys = disk.keys] \in View
    <3>1. views[t] \in View /\ disk.keys \in A!KeyRings
      BY <1>2 DEF KeyTypes
    <3> QED
      BY <3>1 DEF View
  <2>4. views' \in [Tabs -> View]
    BY <1>1, <1>2, <2>3 DEF KeyTypes
  <2> QED
    BY <1>1, <1>2, <2>2, <2>4 DEF KeyTypes
<1>4. A!KeyGoesHome'
  BY <1>1 DEF KeysInv, A!KeyGoesHome, A!KeysOf
<1>5. TabOK(t)'
  <2>1. \/ views[t].page = "other" /\ views'[t] = views[t]
        \/ views'[t] = [views[t] EXCEPT !.keys = disk.keys]
    BY <1>1, <1>2 DEF KeyTypes
  <2> QED
    BY <1>1, <1>2, <2>1 DEF TabOK, KeysInv, KeyTypes, View
<1>6. ASSUME NEW u \in Tabs, u # t PROVE TabOK(u)'
  <2>1. views'[u] = views[u] /\ mail'[u] = mail[u] /\ TabOK(u)
    BY <1>1, <1>2, <1>6 DEF KeyTypes, KeysInv
  <2> QED
    BY <1>1, <1>6, <2>1, OtherTab
<1> QED
  BY <1>3, <1>4, <1>5, <1>6 DEF KeysInv

\* toggleEnabled.
LEMMA ToggleKeeps == ASSUME KeysInv, NEW t \in Tabs, A!toggleEnabled(t) PROVE KeysInv'
<1> DEFINE v == A!AtRest([views[t] EXCEPT !.enabled = ~views[t].enabled])
<1>1. /\ views[t].page = "settings" /\ uses < MaxUses /\ uses' = uses + 1
      /\ views' = [views EXCEPT ![t] = v] /\ UNCHANGED <<mail, unsaved, toasts>>
      /\ calls' = {c \in calls : c.tab # t}
      /\ disk' = disk \/ disk' = [disk EXCEPT !.enabled = ~views[t].enabled]
  BY DEF A!toggleEnabled, A!Use
<1>2. KeyTypes
  BY DEF KeysInv
<1>3. /\ v \in View /\ v.keys = views[t].keys /\ v.toast = views[t].toast /\ v.status = views[t].status
      /\ v.page = views[t].page /\ \A p \in A!Providers : v.test[p] = "idle"
  BY <1>2 DEF KeyTypes, View, A!AtRest
<1>4. disk'.keys = disk.keys /\ disk' \in [keys : A!KeyRings, enabled : BOOLEAN]
  BY <1>1, <1>2 DEF KeyTypes, View
<1> HIDE DEF v
<1>5. KeyTypes'
  BY <1>1, <1>2, <1>3, <1>4, BoundsAssumption DEF KeyTypes
<1>6. A!KeyGoesHome'
  BY <1>1 DEF KeysInv, A!KeyGoesHome, A!KeysOf
<1>7. TabOK(t)'
  <2>1. views'[t] = v
    BY <1>1, <1>2 DEF KeyTypes
  <2> QED
    BY <1>1, <1>3, <1>4, <2>1 DEF TabOK, KeysInv
<1>8. ASSUME NEW u \in Tabs, u # t PROVE TabOK(u)'
  <2>1. views'[u] = views[u] /\ TabOK(u)
    BY <1>1, <1>2, <1>8 DEF KeyTypes, KeysInv
  <2> QED
    BY <1>1, <1>4, <1>8, <2>1, OtherTab
<1> QED
  BY <1>5, <1>6, <1>7, <1>8 DEF KeysInv

\* A step that changes one page, and asks or is answered.
LEMMA OnePage ==
    ASSUME KeysInv, NEW t \in Tabs, NEW v \in View, views' = [views EXCEPT ![t] = v],
           v.page = views[t].page, v.keys = views[t].keys,
           UNCHANGED <<disk, mail, unsaved>>, uses' \in 0..MaxUses,
           toasts' \in [Tabs -> Nat], \A u \in Tabs \ {t} : toasts'[u] = toasts[u],
           calls' \subseteq Call, \A c \in calls' : c.key \in A!KeysOf(c.to),
           \A c \in calls : c.tab # t => c \in calls',
           \A p \in A!Providers : v.test[p] = "testing" =>
                \E c \in calls' : c.tab = t /\ c.kind = "test" /\ c.to = p,
           v.status = "loading" => v.page = "plan" /\ \E c \in calls' : c.tab = t /\ c.kind = "suggest",
           v.toast => toasts'[t] > 0
    PROVE  KeysInv'
<1>1. KeyTypes
  BY DEF KeysInv
<1>2. KeyTypes'
  BY <1>1 DEF KeyTypes
<1>3. A!KeyGoesHome'
  BY DEF A!KeyGoesHome, A!KeysOf
<1>4. TabOK(t)'
  <2>1. views'[t] = v
    BY <1>1 DEF KeyTypes
  <2> QED
    BY <2>1 DEF TabOK, KeysInv
<1>5. ASSUME NEW u \in Tabs, u # t PROVE TabOK(u)'
  <2>1. views'[u] = views[u] /\ TabOK(u)
    BY <1>1, <1>5 DEF KeyTypes, KeysInv
  <2> QED
    BY <1>5, <2>1, OtherTab
<1> QED
  BY <1>2, <1>3, <1>4, <1>5 DEF KeysInv

\* What the invariant says of the calls and of each tab.
LEMMA CallTypes ==
    ASSUME KeysInv
    PROVE  /\ KeyTypes /\ \A c \in calls : c \in Call /\ c.key \in A!KeysOf(c.to)
           /\ \A t \in Tabs : views[t] \in View /\ TabOK(t)
  BY DEF KeysInv, KeyTypes, A!KeyGoesHome

\* A call carries a key of the provider it goes to.
LEMMA AskOK ==
    ASSUME KeysInv, NEW t \in Tabs, NEW kind \in {"test", "suggest"}, NEW p \in A!Providers, NEW key \in A!KeysOf(p),
           A!Ask(t, kind, p, key)
    PROVE  /\ calls' \subseteq Call /\ \A c \in calls' : c.key \in A!KeysOf(c.to)
           /\ calls \subseteq calls' /\ \E c \in calls' : c.tab = t /\ c.kind = kind /\ c.to = p
<1> DEFINE new == [tab |-> t, kind |-> kind, to |-> p, key |-> key, n |-> uses]
<1>1. calls' = calls \cup {new}
  BY DEF A!Ask
<1>2. new \in Call
  BY CallTypes DEF Call, KeyTypes
<1>3. new.tab = t /\ new.kind = kind /\ new.to = p /\ new.key = key
  OBVIOUS
<1> HIDE DEF new
<1> QED
  BY <1>1, <1>2, <1>3, CallTypes DEF KeyTypes

\* handleAISuggest.
LEMMA SuggestKeeps == ASSUME KeysInv, NEW t \in Tabs, A!handleAISuggest(t) PROVE KeysInv'
<1>1. /\ views[t].page = "plan" /\ uses < MaxUses /\ uses' = uses + 1
      /\ UNCHANGED <<disk, mail, unsaved>>
  BY DEF A!handleAISuggest, A!Use
<1>2. KeyTypes /\ views[t] \in View /\ TabOK(t) /\ calls \subseteq Call /\ \A c \in calls : c.key \in A!KeysOf(c.to)
  BY CallTypes DEF KeyTypes
<1>3. uses' \in 0..MaxUses
  BY <1>1, <1>2, BoundsAssumption DEF KeyTypes
<1>4. CASE A!showToast(t, "unconfigured") /\ UNCHANGED calls
  <2> DEFINE v == [views[t] EXCEPT !.status = "unconfigured", !.toast = TRUE]
  <2>1. /\ views' = [views EXCEPT ![t] = v] /\ toasts' = [toasts EXCEPT ![t] = @ + 1]
    BY <1>2, <1>4 DEF A!showToast, KeyTypes
  <2>2. /\ v \in View /\ v.page = views[t].page /\ v.keys = views[t].keys /\ v.status = "unconfigured"
        /\ v.test = views[t].test
    BY <1>2 DEF View
  <2>3. /\ toasts' \in [Tabs -> Nat] /\ toasts'[t] > 0 /\ \A u \in Tabs \ {t} : toasts'[u] = toasts[u]
    BY <1>2, <2>1 DEF KeyTypes
  <2> HIDE DEF v
  <2>4. \A p \in A!Providers : v.test[p] = "testing" => \E c \in calls' : c.tab = t /\ c.kind = "test" /\ c.to = p
    BY <1>2, <1>4, <2>2 DEF TabOK
  <2> QED
    BY <1>1, <1>2, <1>3, <1>4, <2>1, <2>2, <2>3, <2>4, OnePage
<1>5. CASE /\ \E p \in A!Configured(t) : A!Ask(t, "suggest", p, A!apiKey(t, p))
           /\ views' = [views EXCEPT ![t].status = "loading"] /\ UNCHANGED toasts
  <2> DEFINE v == [views[t] EXCEPT !.status = "loading"]
  <2>1. PICK p \in A!Configured(t) : A!Ask(t, "suggest", p, A!apiKey(t, p))
    BY <1>5
  <2>2. p \in A!Providers /\ A!apiKey(t, p) \in A!KeysOf(p)
    <3>1. p \in A!Providers /\ views[t].keys[p] # A!None
      BY DEF A!Configured, A!Providers
    <3>2. views[t].keys \in A!KeyRings
      BY <1>2 DEF View
    <3> QED
      BY <3>1, <3>2, RingValue DEF A!apiKey
  <2>3. /\ calls' \subseteq Call /\ \A c \in calls' : c.key \in A!KeysOf(c.to)
        /\ calls \subseteq calls' /\ \E c \in calls' : c.tab = t /\ c.kind = "suggest"
    BY <2>1, <2>2, AskOK
  <2>4. /\ views' = [views EXCEPT ![t] = v] /\ v \in View /\ v.page = views[t].page /\ v.keys = views[t].keys
        /\ v.test = views[t].test /\ v.toast = views[t].toast
    BY <1>2, <1>5 DEF View, KeyTypes
  <2>5. toasts' \in [Tabs -> Nat] /\ toasts' = toasts
    BY <1>2, <1>5 DEF KeyTypes
  <2> HIDE DEF v
  <2>6. \A q \in A!Providers : v.test[q] = "testing" => \E c \in calls' : c.tab = t /\ c.kind = "test" /\ c.to = q
    BY <1>2, <2>3, <2>4 DEF TabOK
  <2>7. v.toast => toasts'[t] > 0
    BY <1>2, <2>4, <2>5 DEF TabOK
  <2>8. v.page = "plan" /\ \A u \in Tabs \ {t} : toasts'[u] = toasts[u]
    BY <1>1, <2>4, <2>5
  <2>9. \A c \in calls : c.tab # t => c \in calls'
    BY <2>3
  <2> QED
    BY <1>1, <1>3, <2>3, <2>4, <2>5, <2>6, <2>7, <2>8, <2>9, OnePage
<1> QED
  BY <1>4, <1>5 DEF A!handleAISuggest

\* The timer of a toast.
LEMMA ToastKeeps == ASSUME KeysInv, NEW t \in Tabs, A!ToastGoes(t) PROVE KeysInv'
<1> DEFINE v == [views[t] EXCEPT !.status = "idle", !.toast = FALSE]
<1>1. KeyTypes /\ views[t] \in View /\ TabOK(t) /\ calls \subseteq Call /\ \A c \in calls : c.key \in A!KeysOf(c.to)
  BY CallTypes DEF KeyTypes
<1>2. /\ toasts[t] > 0 /\ toasts' = [toasts EXCEPT ![t] = @ - 1] /\ views' = [views EXCEPT ![t] = v]
      /\ UNCHANGED <<disk, mail, unsaved, calls, uses>>
  BY <1>1 DEF A!ToastGoes, KeyTypes
<1>3. /\ v \in View /\ v.page = views[t].page /\ v.keys = views[t].keys /\ v.status = "idle" /\ ~v.toast
      /\ v.test = views[t].test
  BY <1>1 DEF View
<1>4. /\ toasts' \in [Tabs -> Nat] /\ \A u \in Tabs \ {t} : toasts'[u] = toasts[u]
  BY <1>1, <1>2 DEF KeyTypes
<1> HIDE DEF v
<1>5. \A p \in A!Providers : v.test[p] = "testing" => \E c \in calls' : c.tab = t /\ c.kind = "test" /\ c.to = p
  BY <1>1, <1>2, <1>3 DEF TabOK
<1>6. uses' \in 0..MaxUses
  BY <1>1, <1>2 DEF KeyTypes
<1> QED
  BY <1>1, <1>2, <1>3, <1>4, <1>5, <1>6, OnePage

\* setDraft.
LEMMA DraftKeeps == ASSUME KeysInv, NEW t \in Tabs, NEW p \in A!Providers, A!setDraft(t, p) PROVE KeysInv'
<1>1. KeyTypes /\ views[t] \in View /\ TabOK(t) /\ calls \subseteq Call /\ \A c \in calls : c.key \in A!KeysOf(c.to)
  BY CallTypes DEF KeyTypes
<1>2. PICK key \in ({A!None} \cup A!KeysOf(p)) \ {views[t].draft[p]} : views' = [views EXCEPT ![t].draft[p] = key]
  BY DEF A!setDraft
<1>3. /\ uses < MaxUses /\ uses' = uses + 1 /\ UNCHANGED <<disk, mail, unsaved, calls, toasts>>
  BY DEF A!setDraft, A!Use
<1> DEFINE d == [views[t].draft EXCEPT ![p] = key]
           v == [views[t] EXCEPT !.draft = d]
<1>4. d \in A!KeyRings
  <2>1. views[t].draft \in A!KeyRings
    BY <1>1 DEF View
  <2> QED
    BY <1>2, <2>1, RingUpdate
<1>5. views' = [views EXCEPT ![t] = v]
  BY <1>1, <1>2 DEF KeyTypes
<1> HIDE DEF d
<1>6. /\ v \in View /\ v.page = views[t].page /\ v.keys = views[t].keys /\ v.status = views[t].status
      /\ v.toast = views[t].toast /\ v.test = views[t].test
  BY <1>1, <1>4 DEF View
<1> HIDE DEF v
<1>7. \A q \in A!Providers : v.test[q] = "testing" => \E c \in calls' : c.tab = t /\ c.kind = "test" /\ c.to = q
  BY <1>1, <1>3, <1>6 DEF TabOK
<1>8. uses' \in 0..MaxUses /\ toasts' \in [Tabs -> Nat] /\ \A u \in Tabs \ {t} : toasts'[u] = toasts[u]
  BY <1>1, <1>3, BoundsAssumption DEF KeyTypes
<1>9. v.status = "loading" => v.page = "plan" /\ \E c \in calls' : c.tab = t /\ c.kind = "suggest"
  BY <1>1, <1>3, <1>6 DEF TabOK
<1>10. v.toast => toasts'[t] > 0
  BY <1>1, <1>3, <1>6 DEF TabOK
<1> QED
  BY <1>1, <1>3, <1>5, <1>6, <1>7, <1>8, <1>9, <1>10, OnePage

\* handleTest.
LEMMA TestKeeps == ASSUME KeysInv, NEW t \in Tabs, NEW p \in A!Providers, A!handleTest(t, p) PROVE KeysInv'
<1>1. KeyTypes /\ views[t] \in View /\ TabOK(t)
  BY CallTypes
<1>2. /\ uses < MaxUses /\ uses' = uses + 1 /\ UNCHANGED <<disk, mail, unsaved, toasts>>
      /\ views' = [views EXCEPT ![t].test[p] = "testing"] /\ A!Ask(t, "test", p, views[t].draft[p])
      /\ views[t].draft[p] # A!None
  BY DEF A!handleTest, A!Use
<1>3. views[t].draft[p] \in A!KeysOf(p)
  <2>1. views[t].draft \in A!KeyRings
    BY <1>1 DEF View
  <2> QED
    BY <1>2, <2>1, RingValue
<1>4. /\ calls' \subseteq Call /\ \A c \in calls' : c.key \in A!KeysOf(c.to)
      /\ calls \subseteq calls' /\ \E c \in calls' : c.tab = t /\ c.kind = "test" /\ c.to = p
  BY <1>2, <1>3, AskOK
<1> DEFINE d == [views[t].test EXCEPT ![p] = "testing"]
           v == [views[t] EXCEPT !.test = d]
<1>5. views' = [views EXCEPT ![t] = v]
  BY <1>1, <1>2 DEF KeyTypes
<1>6. /\ v \in View /\ v.page = views[t].page /\ v.keys = views[t].keys /\ v.status = views[t].status
      /\ v.toast = views[t].toast /\ \A q \in A!Providers \ {p} : v.test[q] = views[t].test[q]
  BY <1>1 DEF View
<1> HIDE DEF v, d
<1>7. \A q \in A!Providers : v.test[q] = "testing" => \E c \in calls' : c.tab = t /\ c.kind = "test" /\ c.to = q
  BY <1>1, <1>4, <1>6 DEF TabOK
<1>8. uses' \in 0..MaxUses /\ toasts' \in [Tabs -> Nat] /\ \A u \in Tabs \ {t} : toasts'[u] = toasts[u]
  BY <1>1, <1>2, BoundsAssumption DEF KeyTypes
<1>9. v.status = "loading" => v.page = "plan" /\ \E c \in calls' : c.tab = t /\ c.kind = "suggest"
  BY <1>1, <1>4, <1>6 DEF TabOK
<1>10. v.toast => toasts'[t] > 0
  BY <1>1, <1>2, <1>6 DEF TabOK
<1>11. \A c \in calls : c.tab # t => c \in calls'
  BY <1>4
<1> QED
  BY <1>2, <1>4, <1>5, <1>6, <1>7, <1>8, <1>9, <1>10, <1>11, OnePage

\* The answer of a provider.
LEMMA CallKeeps == ASSUME KeysInv, NEW c \in calls, NEW reply \in A!Replies, A!callAI(c, reply) PROVE KeysInv'
<1> DEFINE t == c.tab
<1>1. KeyTypes /\ c \in Call /\ t \in Tabs /\ c.to \in A!Providers /\ c.kind \in {"test", "suggest"}
  BY CallTypes DEF KeyTypes, Call
<1>2. views[t] \in View /\ TabOK(t) /\ calls \subseteq Call /\ \A x \in calls : x.key \in A!KeysOf(x.to)
  BY <1>1, CallTypes DEF KeyTypes
<1>3. calls' = calls \ {c} /\ UNCHANGED <<disk, mail, unsaved, uses>>
  BY DEF A!callAI
<1>4. calls' \subseteq Call /\ (\A x \in calls' : x.key \in A!KeysOf(x.to)) /\ \A x \in calls : x.tab # t => x \in calls'
  BY <1>2, <1>3
<1>5. uses' \in 0..MaxUses
  BY <1>1, <1>3 DEF KeyTypes
<1>6. CASE c.kind = "suggest"
  <2>1. PICK type \in {"ok", "error"} : A!showToast(t, type)
    BY <1>6 DEF A!callAI
  <2> DEFINE v == [views[t] EXCEPT !.status = type, !.toast = TRUE]
  <2>2. /\ views' = [views EXCEPT ![t] = v] /\ toasts' = [toasts EXCEPT ![t] = @ + 1]
    BY <1>1, <1>2, <2>1 DEF A!showToast, KeyTypes
  <2>3. /\ v \in View /\ v.page = views[t].page /\ v.keys = views[t].keys /\ v.status = type
        /\ v.test = views[t].test
    BY <1>2 DEF View
  <2>4. /\ toasts' \in [Tabs -> Nat] /\ toasts'[t] > 0 /\ \A u \in Tabs \ {t} : toasts'[u] = toasts[u]
    BY <1>1, <2>2 DEF KeyTypes
  <2> HIDE DEF v, t
  <2>5. \A q \in A!Providers : v.test[q] = "testing" => \E x \in calls' : x.tab = t /\ x.kind = "test" /\ x.to = q
    BY <1>2, <1>3, <1>6, <2>3 DEF TabOK
  <2> QED
    BY <1>1, <1>3, <1>4, <1>5, <2>2, <2>3, <2>4, <2>5, OnePage
<1>7. CASE c.kind = "test"
  <2> DEFINE d == [views[t].test EXCEPT ![c.to] = A!Tested(reply)]
             v == [views[t] EXCEPT !.test = d]
  <2>1. views' = [views EXCEPT ![t] = v] /\ toasts' = toasts
    BY <1>1, <1>2, <1>7 DEF A!callAI, KeyTypes
  <2>2. A!Tested(reply) \in {"ok", "error"}
    BY DEF A!Tested
  <2>3. /\ v \in View /\ v.page = views[t].page /\ v.keys = views[t].keys /\ v.status = views[t].status
        /\ v.toast = views[t].toast /\ v.test[c.to] # "testing" /\ \A q \in A!Providers \ {c.to} : v.test[q] = views[t].test[q]
    BY <1>1, <1>2, <2>2 DEF View
  <2> HIDE DEF v, t, d
  <2>4. \A q \in A!Providers : v.test[q] = "testing" => \E x \in calls' : x.tab = t /\ x.kind = "test" /\ x.to = q
    BY <1>2, <1>3, <2>3 DEF TabOK
  <2>5. v.status = "loading" => v.page = "plan" /\ \E x \in calls' : x.tab = t /\ x.kind = "suggest"
    BY <1>2, <1>3, <1>7, <2>3 DEF TabOK
  <2>6. (v.toast => toasts'[t] > 0) /\ toasts' \in [Tabs -> Nat] /\ \A u \in Tabs \ {t} : toasts'[u] = toasts[u]
    BY <1>1, <1>2, <2>1, <2>3 DEF TabOK, KeyTypes
  <2> QED
    BY <1>1, <1>3, <1>4, <1>5, <2>1, <2>3, <2>4, <2>5, <2>6, OnePage
<1> QED
  BY <1>1, <1>6, <1>7

\* A tab writes its ring, or the storage refuses it.
LEMMA WriteKeeps ==
    ASSUME KeysInv, NEW t \in Tabs, NEW p \in A!Providers, NEW key, key = A!None \/ key \in A!KeysOf(p),
           NEW w \in View, w.page = views[t].page, w.status = views[t].status, w.toast = views[t].toast,
           w.keys = views[t].keys,
           \A q \in A!Providers : w.test[q] = "testing" => views[t].test[q] = "testing",
           A!setKeys(t, p, key, w), UNCHANGED <<calls, toasts>>, uses' \in 0..MaxUses
    PROVE  KeysInv'
<1> DEFINE next == [w.keys EXCEPT ![p] = key]
           v == [w EXCEPT !.keys = next]
<1>1. KeyTypes /\ views[t] \in View /\ TabOK(t)
  BY CallTypes
<1>2. next \in A!KeyRings
  <2>1. w.keys \in A!KeyRings
    BY DEF View
  <2> QED
    BY <2>1, RingUpdate
<1>3. views' = [views EXCEPT ![t] = v] /\ A!writeKeys(t, next)
  BY DEF A!setKeys
<1>4. PICK nx \in A!KeyRings : nx = next
  BY <1>2
<1>5. /\ v \in View /\ v.page = w.page /\ v.status = w.status /\ v.toast = w.toast /\ v.test = w.test /\ v.keys = nx
  <2> HIDE DEF next
  <2> QED
    BY <1>2, <1>4 DEF View
<1> HIDE DEF next, v
<1>6. views'[t] = v /\ \A u \in Tabs \ {t} : views'[u] = views[u]
  BY <1>1, <1>3 DEF KeyTypes
<1>7. \/ /\ disk' = [disk EXCEPT !.keys = nx] /\ unsaved' = unsaved \ {t}
         /\ mail' = [u \in Tabs |-> IF u # t /\ nx # disk.keys THEN Append(mail[u], nx) ELSE mail[u]]
      \/ unsaved' = unsaved \cup {t} /\ UNCHANGED <<disk, mail>>
  BY <1>3, <1>4 DEF A!writeKeys
<1>8. /\ disk' \in [keys : A!KeyRings, enabled : BOOLEAN] /\ mail' \in [Tabs -> Seq(A!KeyRings)]
      /\ disk'.keys = nx \/ t \in unsaved'
  <2>1. disk \in [keys : A!KeyRings, enabled : BOOLEAN] /\ mail \in [Tabs -> Seq(A!KeyRings)]
    BY <1>1 DEF KeyTypes
  <2>2. \A u \in Tabs : Append(mail[u], nx) \in Seq(A!KeyRings)
    BY <2>1
  <2>3. mail' \in [Tabs -> Seq(A!KeyRings)]
    BY <1>7, <2>1, <2>2
  <2>4. disk' \in [keys : A!KeyRings, enabled : BOOLEAN] /\ (disk'.keys = nx \/ t \in unsaved')
    BY <1>7, <2>1
  <2> QED
    BY <2>3, <2>4
<1>9. KeyTypes'
  <2>1. views' \in [Tabs -> View]
    BY <1>1, <1>3, <1>5 DEF KeyTypes
  <2>2. unsaved' \subseteq Tabs
    BY <1>1, <1>7 DEF KeyTypes
  <2> QED
    BY <1>1, <1>8, <2>1, <2>2 DEF KeyTypes
<1>10. A!KeyGoesHome'
  BY DEF KeysInv, A!KeyGoesHome, A!KeysOf
<1>11. TabOK(t)'
  BY <1>1, <1>5, <1>6, <1>8 DEF TabOK
<1>12. ASSUME NEW u \in Tabs, u # t PROVE TabOK(u)'
  <2>1. mail[u] \in Seq(A!KeyRings) /\ TabOK(u)
    BY <1>1 DEF KeysInv, KeyTypes
  <2>2. mail'[u] # <<>> \/ (mail'[u] = mail[u] /\ disk'.keys = disk.keys)
    <3>1. CASE /\ disk' = [disk EXCEPT !.keys = nx]
               /\ mail' = [x \in Tabs |-> IF x # t /\ nx # disk.keys THEN Append(mail[x], nx) ELSE mail[x]]
      <4>1. CASE nx # disk.keys
        <5>1. mail'[u] = Append(mail[u], nx)
          BY <1>12, <3>1, <4>1
        <5> QED
          BY <2>1, <5>1
      <4>2. CASE nx = disk.keys
        BY <1>1, <3>1, <4>2 DEF KeyTypes
      <4> QED
        BY <4>1, <4>2
    <3> QED
      BY <1>7, <3>1
  <2>3. u \in unsaved => u \in unsaved'
    BY <1>7, <1>12
  <2> QED
    BY <1>6, <1>12, <2>1, <2>2, <2>3, OtherTab
<1> QED
  BY <1>9, <1>10, <1>11, <1>12 DEF KeysInv

\* handleSave.
LEMMA SaveKeeps == ASSUME KeysInv, NEW t \in Tabs, NEW p \in A!Providers, A!handleSave(t, p) PROVE KeysInv'
<1>1. KeyTypes /\ views[t] \in View
  BY CallTypes
<1>2. /\ uses < MaxUses /\ uses' = uses + 1 /\ UNCHANGED <<calls, toasts>>
      /\ A!setKeys(t, p, views[t].draft[p], views[t])
  BY DEF A!handleSave, A!Use
<1>3. views[t].draft[p] = A!None \/ views[t].draft[p] \in A!KeysOf(p)
  <2>1. views[t].draft \in A!KeyRings
    BY <1>1 DEF View
  <2> QED
    BY <2>1, RingValue
<1>4. uses' \in 0..MaxUses
  BY <1>1, <1>2, BoundsAssumption DEF KeyTypes
<1> QED
  BY <1>1, <1>2, <1>3, <1>4, WriteKeeps

\* clearKey.
LEMMA ClearKeeps == ASSUME KeysInv, NEW t \in Tabs, NEW p \in A!Providers, A!clearKey(t, p) PROVE KeysInv'
<1>1. KeyTypes /\ views[t] \in View
  BY CallTypes
<1> DEFINE w == [views[t] EXCEPT !.draft[p] = A!None, !.test[p] = "idle"]
           d == [views[t].draft EXCEPT ![p] = A!None]
<1>2. /\ uses < MaxUses /\ uses' = uses + 1 /\ UNCHANGED <<calls, toasts>> /\ A!setKeys(t, p, A!None, w)
  BY DEF A!clearKey, A!Use
<1>3. d \in A!KeyRings
  <2>1. views[t].draft \in A!KeyRings
    BY <1>1 DEF View
  <2> QED
    BY <2>1, RingUpdate
<1>4. w = [views[t] EXCEPT !.draft = d, !.test = [views[t].test EXCEPT ![p] = "idle"]]
  BY <1>1 DEF View
<1> HIDE DEF d, w
<1>5. /\ w \in View /\ w.page = views[t].page /\ w.status = views[t].status /\ w.toast = views[t].toast
      /\ w.keys = views[t].keys
      /\ \A q \in A!Providers : w.test[q] = "testing" => views[t].test[q] = "testing"
  BY <1>1, <1>3, <1>4 DEF View
<1>6. uses' \in 0..MaxUses
  BY <1>1, <1>2, BoundsAssumption DEF KeyTypes
<1> QED
  BY <1>2, <1>5, <1>6, WriteKeeps

\* Every step of the tabs and providers keeps the invariant.
LEMMA KeysStep == KeysInv /\ [A!KeysNext]_keyVars => KeysInv'
<1> SUFFICES ASSUME KeysInv, [A!KeysNext]_keyVars PROVE KeysInv'
  OBVIOUS
<1>1. CASE UNCHANGED keyVars
  BY <1>1 DEF keyVars, KeysInv, KeyTypes, TabOK, A!KeyGoesHome, A!KeysOf
<1>2. CASE A!KeysNext
  <2>1. ASSUME NEW t \in Tabs, NEW page \in {"other", "settings", "plan"}, A!Visit(t, page) PROVE KeysInv'
    BY <2>1, VisitKeeps
  <2>2. ASSUME NEW t \in Tabs, A!onStorage(t) \/ A!toggleEnabled(t) \/ A!handleAISuggest(t) \/ A!ToastGoes(t)
        PROVE KeysInv'
    BY <2>2, StorageKeeps, ToggleKeeps, SuggestKeeps, ToastKeeps
  <2>3. ASSUME NEW t \in Tabs, NEW p \in A!Providers,
               A!setDraft(t, p) \/ A!handleSave(t, p) \/ A!clearKey(t, p) \/ A!handleTest(t, p)
        PROVE KeysInv'
    BY <2>3, DraftKeeps, SaveKeeps, ClearKeeps, TestKeeps
  <2>4. ASSUME NEW c \in calls, NEW reply \in A!Replies, A!callAI(c, reply) PROVE KeysInv'
    BY <2>4, CallKeeps
  <2> QED
    BY <1>2, <2>1, <2>2, <2>3, <2>4 DEF A!KeysNext
<1> QED
  BY <1>1, <1>2

-----------------------------------------------------------------------------
(* The theorems.                                                           *)

\* However many chores a member has, whatever their weights, paces and the allowance, and
\* in whatever order they are done: the payouts never exceed the allowance, a full week
\* loses less than a cent per instance, and a bonus is the nearest tenth (wallet_math.go).
THEOREM WeekAddsUpHolds == KidSpec => []WeekAddsUp
<1>1. KidInit => WeekInv
  BY WeekInit DEF KidInit
<1>2. WeekInv /\ [KidNext]_allVars => WeekInv'
  <2>1. [KidNext]_allVars => [Next]_weekVars
    BY DEF KidNext, allVars
  <2> QED
    BY <2>1, WeekStep
<1> QED
  BY <1>1, <1>2, WeekImplies, PTL DEF KidSpec

\* For any chores and any number of presses, in every order of requests and answers: Stop
\* is offered for an open entry, and the question follows a closed one (chores-kid.tsx).
THEOREM TimersHonestHolds == KidSpec => []TimersHonest
<1>1. KidInit => KidInv
  BY KidInitInv DEF KidInit
<1>2. KidInv /\ [KidNext]_allVars => KidInv'
  <2>1. [KidNext]_allVars => [K!KidNext]_kidVars
    BY DEF KidNext, allVars
  <2> QED
    BY <2>1, KidStep
<1> QED
  BY <1>1, <1>2, KidImplies, PTL DEF KidSpec

\* However often the child taps, the list changes and the day turns: the ticks are the
\* shown routine's, a tick is on record, and the streak is the run of full days up to today
\* (routine.tsx, internal/service/routine.go).
THEOREM RecordTrueHolds == KidSpec => []RecordTrue
<1>1. KidInit => RunInv
  BY RunInitInv DEF KidInit
<1>2. RunInv /\ [KidNext]_allVars => RunInv'
  <2>1. [KidNext]_allVars => [R!RunNext]_runVars
    BY DEF KidNext, allVars
  <2> QED
    BY <2>1, RunStep
<1> QED
  BY <1>1, <1>2, RunImplies, PTL DEF KidSpec

\* After any number of edits, saves and writes of another device, "Saved." is true until
\* somebody writes again (HourlyRateField.tsx, internal/service/member.go).
THEOREM SavedIsStoredHolds == KidSpec => []SavedIsStored
<1>1. KidInit => RateInv
  BY RateInitInv DEF KidInit
<1>2. RateInv /\ [KidNext]_allVars => RateInv'
  <2>1. [KidNext]_allVars => [H!RateNext]_rateVars
    BY DEF KidNext, allVars
  <2> QED
    BY <2>1, RateStep
<1> QED
  BY <1>1, <1>2, RateImplies, PTL DEF KidSpec

\* For any number of tabs, notes, keys and visits, what the browser keeps is what the tabs
\* show: an undisturbed tab shows the stored board, boards are newest first, tabs settle on
\* the stored keys, a key goes to its own provider, and nothing waits in vain
\* (use-notes.ts, ai-keys.ts, ai-section.tsx, recipes.tsx).
THEOREM BrowserKeptHolds == KidSpec => []BrowserKept
<1> DEFINE Inv == NotesInv /\ KeysInv
<1>1. KidInit => Inv
  BY NotesInitInv, KeysInitInv DEF KidInit
<1>2. Inv /\ [KidNext]_allVars => Inv'
  <2>1. [KidNext]_allVars => [N!NotesNext]_noteVars /\ [A!KeysNext]_keyVars
    BY DEF KidNext, allVars
  <2> QED
    BY <2>1, NotesStep, KeysStep
<1>3. Inv => BrowserKept
  BY NotesImplies, KeysImplies DEF BrowserKept
<1> QED
  BY <1>1, <1>2, <1>3, PTL DEF KidSpec

\* Every part keeps its types.
THEOREM KidTypeCorrect == KidSpec => []TypeOK
<1> DEFINE Inv == KidInv /\ RunInv /\ NotesInv /\ RateInv /\ KeysInv
<1>1. KidInit => Inv
  BY KidInitInv, RunInitInv, NotesInitInv, RateInitInv, KeysInitInv DEF KidInit
<1>2. Inv /\ [KidNext]_allVars => Inv'
  <2>1. [KidNext]_allVars => /\ [K!KidNext]_kidVars /\ [R!RunNext]_runVars /\ [N!NotesNext]_noteVars
                             /\ [H!RateNext]_rateVars /\ [A!KeysNext]_keyVars
    BY DEF KidNext, allVars
  <2> QED
    BY <2>1, KidStep, RunStep, NotesStep, RateStep, KeysStep
<1>3. Inv => TypeOK
  BY RunImplies, NotesImplies, RateImplies, KeysImplies DEF KidInv, TypeOK
<1> QED
  BY <1>1, <1>2, <1>3, PTL DEF KidSpec
=============================================================================
