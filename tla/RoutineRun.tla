----------------------------- MODULE RoutineRun -----------------------------
(***************************************************************************)
(* The routine a child ticks off (web/src/components/screens/routine.tsx)  *)
(* with the completions and the streak of the server                       *)
(* (internal/service/routine.go, sql/queries/routine.sql).  The ticks live *)
(* in the screen; the server learns of a tick and never of an untick.      *)
(***************************************************************************)
EXTENDS Integers, Sequences, FiniteSets

CONSTANT MaxRounds \* bound on taps, edits from elsewhere and midnights

VARIABLES routines, \* the server: order of the routines, their steps, ids not used yet
          comps,    \* routine_completions: pairs of a step and a day
          cache,    \* the list of routines the screen holds
          tapped,   \* doneSteps and lastRoutineId
          marks,    \* requests to mark a step, in flight
          dropped,  \* steps whose request failed: nothing is shown and nothing resent
          day,      \* the server's day
          rounds

runVars == <<routines, comps, cache, tapped, marks, dropped, day, rounds>>

Routines == {1, 2}
StepsOf(r) == {2*r - 1, 2*r}      \* the ids a step of the routine can have
Steps == UNION {StepsOf(r) : r \in Routines}
Days == 0..2
Orders == {<<>>, <<1>>, <<2>>, <<1, 2>>, <<2, 1>>}
None == 0
\* A routine without a member, or whose member is gone, is not shown.
Lists == [order : Orders, steps : [Routines -> SUBSET Steps], owned : SUBSET Routines]

RunTypeOK ==
    /\ routines \in [list : Lists, fresh : SUBSET Steps]
    /\ comps \subseteq Steps \X Days
    /\ cache \in Lists \cup {[order |-> <<>>]}
    /\ tapped \in [done : SUBSET Steps, last : Routines \cup {None}]
    /\ marks \subseteq [n : 1..MaxRounds, s : Steps]
    /\ dropped \subseteq Steps /\ day \in Days /\ rounds \in 0..MaxRounds

RunInit ==
    /\ \E used \in {{1, 3}, {1, 2, 3}}, o \in {<<1, 2>>, <<2>>}, own \in {{1}, {1, 2}} :
         routines = [list |-> [order |-> o, steps |-> [r \in Routines |-> StepsOf(r) \cap used], owned |-> own],
                     fresh |-> Steps \ used]
    /\ comps = {} /\ cache = [order |-> <<>>] /\ tapped = [done |-> {}, last |-> None]
    /\ marks = {} /\ dropped = {} /\ day = 0 /\ rounds = 0

Round == rounds < MaxRounds /\ rounds' = rounds + 1

First(c) == IF c.order = <<>> THEN None ELSE Head(c.order)

\* The screen has a routine to show: the first, if its member is found.
RoutineKid == First(cache) # None /\ First(cache) \in cache.owned
StepCards == IF RoutineKid THEN cache.steps[First(cache)] ELSE {}
\* "progress / total": every tick counts, whether its step is still on the list or not.
progress == Cardinality(tapped.done)

\* Mutant: the ticks stay when the routine changes.
ReseedNever(c) == IF First(c) = None THEN tapped ELSE [tapped EXCEPT !.last = First(c)]

\* On render: another routine than the last starts with nothing done.
Reseed(c) == IF First(c) \in {None, tapped.last} THEN tapped ELSE [done |-> {}, last |-> First(c)]

\* Mounting, refocusing, a frame and the answer to a mark all refetch the list.
useRoutines ==
    /\ cache' = routines.list /\ tapped' = Reseed(routines.list)
    /\ UNCHANGED <<routines, comps, marks, dropped, day, rounds>>


handleTapStep(s) ==
    /\ Round /\ s \in StepCards
    /\ tapped' = [tapped EXCEPT !.done = IF s \in @ THEN @ \ {s} ELSE @ \cup {s}]
    /\ marks' = IF s \in tapped.done THEN marks ELSE marks \cup {[n |-> rounds + 1, s |-> s]}
    /\ UNCHANGED <<routines, comps, cache, dropped, day>>

\* A reload forgets the ticks; the requests already sent go on.
Remount ==
    /\ Round /\ cache' = [order |-> <<>>] /\ tapped' = [done |-> {}, last |-> None]
    /\ UNCHANGED <<routines, comps, marks, dropped, day>>

\* One row per step and day.  A step that is gone is refused, and so is any step where the
\* database does not have the constraint the statement names.
MarkComplete(m) ==
    /\ marks' = marks \ {m}
    /\ \/ /\ \E r \in Routines : m.s \in routines.list.steps[r]
          /\ comps' = comps \cup {<<m.s, day>>} /\ UNCHANGED dropped
       \/ dropped' = dropped \cup {m.s} /\ UNCHANGED comps
    /\ UNCHANGED <<routines, cache, tapped, day, rounds>>

AddStep(r) ==
    /\ Round
    /\ \E s \in StepsOf(r) \cap routines.fresh :
         routines' = [list |-> [routines.list EXCEPT !.steps[r] = @ \cup {s}], fresh |-> routines.fresh \ {s}]
    /\ UNCHANGED <<comps, cache, tapped, marks, dropped, day>>

\* The step's completions are deleted with it.
DeleteStep(r, s) ==
    /\ Round /\ s \in routines.list.steps[r]
    /\ routines' = [routines EXCEPT !.list.steps[r] = @ \ {s}]
    /\ comps' = {c \in comps : c[1] # s}
    /\ UNCHANGED <<cache, tapped, marks, dropped, day>>

\* Archiving or reordering: what the list starts with changes.
UpdateRoutine(o) ==
    /\ Round /\ routines.list.order # o /\ routines' = [routines EXCEPT !.list.order = o]
    /\ UNCHANGED <<comps, cache, tapped, marks, dropped, day>>

Midnight ==
    /\ Round /\ day + 1 \in Days /\ day' = day + 1
    /\ UNCHANGED <<routines, comps, cache, tapped, marks, dropped>>

RunNext ==
    \/ useRoutines \/ Remount \/ Midnight
    \/ \E s \in Steps : handleTapStep(s)
    \/ \E m \in marks : MarkComplete(m)
    \/ \E r \in Routines : AddStep(r) \/ \E s \in Steps : DeleteStep(r, s)
    \/ \E o \in {<<1, 2>>, <<2, 1>>, <<2>>} : UpdateRoutine(o)

-----------------------------------------------------------------------------
GetDailyCompletionCounts(r, d) == Cardinality({s \in StepsOf(r) : <<s, d>> \in comps})

\* A day with no completion has no row, so it never counts as complete.
CompletedDay(r, d) ==
    LET totalSteps == Cardinality(routines.list.steps[r])
        count      == GetDailyCompletionCounts(r, d)
    IN  totalSteps > 0 /\ count >= totalSteps

\* The loop from today backwards, with its break.
GetStreak(r) ==
    LET back[d \in 0..(day + 1)] == IF d > day \/ ~CompletedDay(r, day - d) THEN 0 ELSE 1 + back[d + 1]
    IN  back[0]

\* The screen's ticks are ticks of the routine it shows, whatever order the list
\* came in and however often it changed: another routine starts at nothing done,
\* and the progress never exceeds the total of a routine that lost no step.
TicksOfShown ==
    /\ First(cache) # None => tapped.last = First(cache)
    /\ tapped.last = None => tapped.done = {}
    /\ tapped.last # None => tapped.done \subseteq StepsOf(tapped.last)
    /\ RoutineKid /\ StepCards = StepsOf(First(cache)) => progress <= Cardinality(StepCards)

\* A tick is on record: with no request for the step under way and none refused,
\* the server has a completion of every ticked step it still has, from this day
\* or an earlier one.
TickOnRecord ==
    \A s \in tapped.done :
        \/ s \in dropped \/ \E m \in marks : m.s = s
        \/ \E d \in Days : <<s, d>> \in comps
        \/ \A r \in Routines : s \notin routines.list.steps[r]

\* "consecutive days where the member completed all steps of the routine": the
\* streak is the longest run of days up to today on each of which every step the
\* routine has now was completed.
StreakIsRun ==
    \A r \in Routines :
        LET full(d) == routines.list.steps[r] # {} /\ \A s \in routines.list.steps[r] : <<s, d>> \in comps
        IN  /\ \A d \in 0..day : d > day - GetStreak(r) => full(d)
            /\ day - GetStreak(r) >= 0 => ~full(day - GetStreak(r))

\* What the routine says was done was done (RoutineKid, GetStreak): its ticks are its
\* own and on record, and the streak counts full days only.
RecordTrue == TicksOfShown /\ TickOnRecord /\ StreakIsRun
=============================================================================
