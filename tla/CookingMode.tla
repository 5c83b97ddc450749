---------------------------- MODULE CookingMode -----------------------------
(***************************************************************************)
(* Cooking mode (web/src/components/screens/cooking-mode.tsx): the steps   *)
(* of a recipe one at a time, a countdown for a step that names its        *)
(* minutes, and the screen's wake lock.  A minute is one tick.             *)
(***************************************************************************)
EXTENDS Integers, Sequences

CONSTANT MaxVisits \* bound on how often cooking mode is entered

VARIABLES steps,   \* minutes named by each step's text, 0 when none
          cook,    \* the screen: whether it is open, the recipe loaded, stepIdx
          timer,   \* StepTimer while it is mounted, the step of its last reset and the ticks since
          badge,   \* timerDone
          lock,    \* the wake lock of this visit
          late,    \* requests for a lock whose visit is over
          left     \* locks of earlier visits that are still held

cookVars == <<steps, cook, timer, badge, lock, late, left>>

Recipes == {<<>>, <<1, 0>>, <<2, 2, 1>>, <<1, 0, 2>>}
timerSeconds(i) == IF i \in DOMAIN steps THEN steps[i] ELSE 0
NoTimer == [on |-> FALSE, remaining |-> 0, running |-> FALSE, ticks |-> 0, from |-> 0]
StepTimer(i) ==
    IF timerSeconds(i) = 0 THEN NoTimer
    ELSE [on |-> TRUE, remaining |-> timerSeconds(i), running |-> FALSE, ticks |-> 0, from |-> i]

CookTypeOK ==
    /\ cook \in [open : BOOLEAN, loaded : BOOLEAN, idx : 1..3, visits : 0..MaxVisits]
    /\ cook.idx \in 1..Len(steps) \cup {1}
    /\ timer \in [on : BOOLEAN, remaining : 0..2, running : BOOLEAN, ticks : 0..2, from : 0..3]
    /\ badge \in BOOLEAN
    /\ lock \in {"none", "asked", "held"} /\ late \in 0..MaxVisits /\ left \in 0..MaxVisits

CookInit ==
    /\ steps \in Recipes
    /\ cook = [open |-> FALSE, loaded |-> FALSE, idx |-> 1, visits |-> 0]
    /\ timer = NoTimer /\ badge = FALSE
    /\ lock = "none" /\ late = 0 /\ left = 0

\* Mounting asks for the wake lock.
Enter ==
    /\ ~cook.open /\ cook.visits < MaxVisits
    /\ cook' = [open |-> TRUE, loaded |-> FALSE, idx |-> 1, visits |-> cook.visits + 1]
    /\ lock' = "asked"
    /\ timer' = NoTimer /\ badge' = FALSE
    /\ UNCHANGED <<steps, late, left>>

\* "Loading recipe..." until the recipe is there.
RecipeLoads ==
    /\ cook.open /\ ~cook.loaded
    /\ cook' = [cook EXCEPT !.loaded = TRUE]
    /\ timer' = StepTimer(1)
    /\ UNCHANGED <<steps, badge, lock, late, left>>

\* navigator.wakeLock.request is granted or refused; nobody asks whether the
\* screen is still there.
acquire ==
    /\ \/ lock = "asked" /\ lock' \in {"held", "none"} /\ UNCHANGED <<late, left>>
       \/ late > 0 /\ late' = late - 1 /\ left' \in {left, left + 1} /\ UNCHANGED lock
    /\ UNCHANGED <<steps, cook, timer, badge>>

release ==
    /\ lock' = "none"
    /\ late' = (IF lock = "asked" THEN late + 1 ELSE late)
    /\ UNCHANGED left

\* Exit, Done, "Back to recipe" and the browser go back; unmounting releases the lock and
\* clears the interval.
Exit ==
    /\ cook.open
    /\ cook' = [cook EXCEPT !.open = FALSE]
    /\ release
    /\ timer' = NoTimer
    /\ UNCHANGED <<steps, badge>>

Cooking == cook.open /\ cook.loaded /\ steps # <<>>
isFirst == cook.idx = 1
isLast == cook.idx = Len(steps)

\* The timer stays mounted between two steps that both have one, and starts
\* anew when the minutes differ; between steps of the same minutes it goes on.
TimerFor(i) ==
    timer' = IF timer.on /\ timerSeconds(i) = timerSeconds(cook.idx) THEN timer ELSE StepTimer(i)
timerDoneReset == badge' = FALSE
GoTo(i) ==
    /\ cook' = [cook EXCEPT !.idx = i]
    /\ TimerFor(i) /\ timerDoneReset
    /\ UNCHANGED <<steps, lock, late, left>>

\* Mutant: the button works on the last step too.
NextStepPastEnd == Cooking /\ cook.idx <= Len(steps) /\ GoTo(cook.idx + 1)

NextStep == Cooking /\ ~isLast /\ GoTo(cook.idx + 1)
Previous == Cooking /\ ~isFirst /\ GoTo(cook.idx - 1)

TimerStart ==
    /\ Cooking /\ timer.on /\ ~timer.running /\ timer.remaining > 0
    /\ timer' = [timer EXCEPT !.running = TRUE]
    /\ UNCHANGED <<steps, cook, badge, lock, late, left>>
TimerPause ==
    /\ Cooking /\ timer.running
    /\ timer' = [timer EXCEPT !.running = FALSE]
    /\ UNCHANGED <<steps, cook, badge, lock, late, left>>
TimerReset ==
    /\ Cooking /\ timer.on /\ timer.remaining # timerSeconds(cook.idx)
    /\ timer' = StepTimer(cook.idx)
    /\ UNCHANGED <<steps, cook, badge, lock, late, left>>

Tick ==
    /\ Cooking /\ timer.running
    /\ timer' = [timer EXCEPT !.remaining = IF @ <= 1 THEN 0 ELSE @ - 1, !.ticks = @ + 1, !.running = timer.remaining > 1]
    /\ badge' = (badge \/ timer.remaining <= 1)
    /\ UNCHANGED <<steps, cook, lock, late, left>>

Countdown == TimerStart \/ TimerPause \/ TimerReset \/ Tick
CookNext == Enter \/ RecipeLoads \/ acquire \/ Exit \/ NextStep \/ Previous \/ Countdown
\* Ticks of the running interval.
CookFairness == WF_cookVars(Tick)
-----------------------------------------------------------------------------
\* The steps from step i to step k, whichever comes first.
Between(i, k) == {j \in 1..Len(steps) : (i <= j /\ j <= k) \/ (k <= j /\ j <= i)}

\* The countdown counts the minutes of the step on the screen: what remains and
\* what has elapsed add up to them, and a step without minutes has neither a
\* countdown nor "Timer done!".  It may have been started at another step, but
\* then every step from there to here names the same minutes (the effect of
\* StepTimer depends on its seconds alone, the badge's on stepIdx).
CountdownHonest ==
    Cooking => /\ timer.on = (timerSeconds(cook.idx) > 0)
               /\ badge => timer.on
               /\ timer.on => /\ timer.remaining + timer.ticks = timerSeconds(cook.idx)
                              /\ \A j \in Between(timer.from, cook.idx) : timerSeconds(j) = timerSeconds(cook.idx)

\* Leaving gives the wake lock back, unless it was granted only after leaving.
LateGrants == [][left' > left => late' < late]_cookVars

\* A running countdown ends, if only by running out.
CountdownEnds == timer.running ~> ~timer.running
=============================================================================
