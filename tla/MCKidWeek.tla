------------------------------ MODULE MCKidWeek -----------------------------
(***************************************************************************)
(* A child's week and the small boards beside it, one part per behaviour:  *)
(* what the week's chores pay under an allowance, the chore timers, the    *)
(* routine, the notes, the AI keys, and the hourly rate of a member.  The  *)
(* parts not chosen rest in one initial state.                             *)
(***************************************************************************)
EXTENDS AllowanceWeek, TLC

CONSTANTS c1, c2,
          Tabs, \* the tabs of one browser
          MaxPresses, MaxRounds, MaxNotes, MaxPins, MaxSets, MaxUses, MaxVersions

ASSUME BoundsAssumption ==
    /\ MaxPresses \in Nat /\ MaxRounds \in Nat /\ MaxNotes \in Nat /\ MaxPins \in Nat
    /\ MaxSets \in Nat /\ MaxUses \in Nat /\ MaxVersions \in Nat \ {0}

VARIABLES part,
          entries, kid, asks, presses, unheard,
          routines, comps, cache, tapped, marks, dropped, day, rounds,
          stored, tabs, pins, behind,
          rate, viewer, known, field, put, told, sets,
          disk, mail, unsaved, views, calls, toasts, uses

\* The paces are those of real frequency settings.
MCPaces == {FrequencyPerWeek("daily", <<>>),
            FrequencyPerWeek("weekly", <<>>),
            FrequencyPerWeek("specific_days", <<"mon", "thu">>),
            FrequencyPerWeek("specific_days", <<>>)}

Symmetry == Permutations(Chores)

K == INSTANCE KidChores WITH ChoreCards <- Chores
R == INSTANCE RoutineRun
N == INSTANCE NotesBoard
H == INSTANCE HourlyRate
A == INSTANCE AiKeys WITH KeyTabs <- Tabs

weekVars == <<plan, allowance, done, earned>>
kidVars  == <<entries, kid, asks, presses, unheard>>
runVars  == <<routines, comps, cache, tapped, marks, dropped, day, rounds>>
noteVars == <<stored, tabs, pins, behind>>
rateVars == <<rate, viewer, known, field, put, told, sets>>
keyVars  == <<disk, mail, unsaved, views, calls, toasts, uses>>
allVars  == <<part, weekVars, kidVars, runVars, noteVars, rateVars, keyVars>>

KidInit ==
    /\ part \in {"allowance", "timers", "routine", "notes", "rate", "keys"}
    /\ Init
    /\ part # "allowance" =>
          /\ allowance = CHOOSE a \in Allowances : TRUE
          /\ \A c \in Chores : plan[c] = [weight |-> CHOOSE w \in Weights : TRUE, freq |-> CHOOSE f \in Paces : TRUE]
    /\ K!KidInit /\ N!NotesInit
    /\ R!RunInit
    /\ part # "routine" => routines.fresh = {4} /\ routines.list.order = <<2>> /\ routines.list.owned = {1}
    /\ H!RateInit /\ (part # "rate" => viewer = "self" /\ rate = <<1, 2>>)
    /\ A!KeysInit /\ (part # "keys" => disk.keys = A!NoKeys /\ \A t \in Tabs : views[t].page = "other")

KidNext ==
    /\ UNCHANGED part
    /\ \/ part = "allowance" /\ Next /\ UNCHANGED <<kidVars, runVars, noteVars, rateVars, keyVars>>
       \/ part = "timers" /\ K!KidNext /\ UNCHANGED <<weekVars, runVars, noteVars, rateVars, keyVars>>
       \/ part = "routine" /\ R!RunNext /\ UNCHANGED <<weekVars, kidVars, noteVars, rateVars, keyVars>>
       \/ part = "notes" /\ N!NotesNext /\ UNCHANGED <<weekVars, kidVars, runVars, rateVars, keyVars>>
       \/ part = "rate" /\ H!RateNext /\ UNCHANGED <<weekVars, kidVars, runVars, noteVars, keyVars>>
       \/ part = "keys" /\ A!KeysNext /\ UNCHANGED <<weekVars, kidVars, runVars, noteVars, rateVars>>

KidSpec == KidInit /\ [][KidNext]_allVars

\* Every variable of the chosen part has its type.
TypeOK ==
    /\ part = "timers" => K!KidTypeOK
    /\ part = "routine" => R!RunTypeOK
    /\ part = "notes" => N!NotesTypeOK
    /\ part = "rate" => H!RateTypeOK
    /\ part = "keys" => A!KeysTypeOK

\* A kid's timer: Stop is shown for an open entry, the question after a stop.
TimersHonest == K!TimersHonest
\* A child's routine: the ticks are the shown routine's, a tick is on record, and the
\* streak is the run of full days up to today.
RecordTrue == R!RecordTrue
\* What the browser keeps.  The notes: an undisturbed tab shows what is stored, and the
\* cap drops the oldest.  The AI keys: tabs settle on what is stored, a key goes to its
\* own provider, and nothing waits for an answer that cannot come.
BrowserKept == N!BrowserKept /\ A!BrowserKept
\* A member's hourly rate: "Saved." is true.
SavedIsStored == H!SavedIsStored
=============================================================================
