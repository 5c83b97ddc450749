----------------------------- MODULE KidChores ------------------------------
(***************************************************************************)
(* The chore screen of a child (web/src/components/screens/chores-kid.tsx) *)
(* with the chore timers of the server (internal/service/chore_timer.go,   *)
(* sql/queries/chore_time_entries.sql).  A mutation hook runs the callbacks*)
(* of its latest call only, and none after the screen is gone.             *)
(***************************************************************************)
EXTENDS Integers, FiniteSets

CONSTANTS ChoreCards, \* the child's chores
          MaxPresses  \* bound on the presses and reloads

VARIABLES entries,  \* the server: is an entry open, how many are closed, per chore
          kid,      \* timers: running, awaitingComplete, errorMessage, per chore
          asks,     \* requests in flight
          presses,  \* how much the child did
          unheard   \* chores whose start or stop was not heard, or crossed another

kidVars == <<entries, kid, asks, presses, unheard>>

NoTimer == [running |-> FALSE, awaiting |-> FALSE, error |-> FALSE]

KidTypeOK ==
    /\ entries \in [ChoreCards -> [open : BOOLEAN, closed : Nat]]
    /\ kid \in [ChoreCards -> [running : BOOLEAN, awaiting : BOOLEAN, error : BOOLEAN]]
    /\ asks \subseteq [n : 1..MaxPresses, hook : {"start", "stop", "mark"}, c : ChoreCards,
                       confirm : BOOLEAN, heard : BOOLEAN, st : {"sent", "ok", "failed"}]
    /\ presses \in 0..MaxPresses /\ unheard \subseteq ChoreCards

KidInit ==
    /\ entries = [c \in ChoreCards |-> [open |-> FALSE, closed |-> 0]]
    /\ kid = [c \in ChoreCards |-> NoTimer] /\ asks = {} /\ presses = 0 /\ unheard = {}

Press == presses < MaxPresses /\ presses' = presses + 1

Timing == {a \in asks : a.hook # "mark"}

\* mutate: the hook's earlier calls lose their callbacks.  No button is disabled while a
\* request is under way, so a start and a stop of one chore can be answered in any order.
MutateKid(hook, c, confirm) ==
    /\ Press
    /\ asks' = {[a EXCEPT !.heard = @ /\ a.hook # hook] : a \in asks} \cup
                 {[n |-> presses + 1, hook |-> hook, c |-> c, confirm |-> confirm, heard |-> TRUE, st |-> "sent"]}
    /\ unheard' = unheard \cup {a.c : a \in {b \in Timing : b.heard /\ b.hook = hook}}
                          \cup {d \in {c} : hook # "mark" /\ \E a \in Timing : a.c = c}

\* The row's button is Start or Stop; the dialog asks whether the chore is complete.
TimerButton(c) == IF kid[c].running THEN "stop" ELSE "start"
CompleteDialog(c) == kid[c].awaiting

handleStart(c) ==
    /\ TimerButton(c) = "start" /\ MutateKid("start", c, FALSE)
    /\ kid' = [kid EXCEPT ![c].error = FALSE]
    /\ UNCHANGED entries

handleStop(c) == TimerButton(c) = "stop" /\ MutateKid("stop", c, FALSE) /\ UNCHANGED <<entries, kid>>

\* A cell of the chore's week that is not completed (completions are ChoreWallet's), or
\* the dialog after a stop.
handleTap(c) == MutateKid("mark", c, FALSE) /\ UNCHANGED <<entries, kid>>
handleConfirmComplete(c) ==
    CompleteDialog(c) /\ MutateKid("mark", c, TRUE) /\ UNCHANGED <<entries, kid>>
handleDismissComplete(c) ==
    /\ CompleteDialog(c) /\ kid' = [kid EXCEPT ![c] = NoTimer]
    /\ UNCHANGED <<entries, asks, presses, unheard>>

\* The timers live in the screen's state only.
ReloadKid ==
    /\ Press /\ kid' = [c \in ChoreCards |-> NoTimer]
    /\ asks' = {[a EXCEPT !.heard = FALSE] : a \in asks}
    /\ unheard' = unheard \cup {a.c : a \in Timing}
    /\ UNCHANGED entries

\* uq_chore_time_entries_open: one open entry per chore and member.
Start(c) == [entries EXCEPT ![c].open = TRUE]
Stop(c) == [entries EXCEPT ![c] = [open |-> FALSE, closed |-> @.closed + 1]]
Accepts(a) == CASE a.hook = "start" -> ~entries[a.c].open
                [] a.hook = "stop"  -> entries[a.c].open
                [] a.hook = "mark"  -> TRUE

ServerTakesTimer(a) ==
    /\ a.st = "sent"
    /\ LET to(st) == asks' = (asks \ {a}) \cup {[a EXCEPT !.st = st]}
       IN  \/ to("failed") /\ UNCHANGED <<entries, unheard>>
           \/ /\ Accepts(a)
              /\ entries' = CASE a.hook = "start" -> Start(a.c) [] a.hook = "stop" -> Stop(a.c) [] OTHER -> entries
              /\ \/ to("ok") /\ UNCHANGED unheard
                 \/ to("failed") /\ unheard' = unheard \cup {b.c : b \in Timing \cap {a}}
    /\ UNCHANGED <<kid, presses>>

\* Mutant: a stop leaves the timer running on the screen.
ToldKeepsRunning(a) ==
    CASE a.hook = "start" /\ a.st = "ok"     -> [NoTimer EXCEPT !.running = TRUE]
      [] a.hook = "stop" /\ a.st = "ok"      -> [kid[a.c] EXCEPT !.awaiting = TRUE]
      [] a.hook # "mark" /\ a.st = "failed"  -> [kid[a.c] EXCEPT !.error = TRUE]
      [] a.hook = "mark" /\ a.confirm /\ a.st = "ok" -> NoTimer
      [] OTHER -> kid[a.c]

\* onSuccess and onError of the call.
Told(a) ==
    CASE a.hook = "start" /\ a.st = "ok"     -> [NoTimer EXCEPT !.running = TRUE]
      [] a.hook = "stop" /\ a.st = "ok"      -> [NoTimer EXCEPT !.awaiting = TRUE]
      [] a.hook # "mark" /\ a.st = "failed"  -> [kid[a.c] EXCEPT !.error = TRUE]
      [] a.hook = "mark" /\ a.confirm /\ a.st = "ok" -> NoTimer
      [] OTHER -> kid[a.c]

AnsweredTimer(a) ==
    /\ a.st # "sent" /\ asks' = asks \ {a}
    /\ kid' = IF a.heard THEN [kid EXCEPT ![a.c] = Told(a)] ELSE kid
    /\ UNCHANGED <<entries, presses, unheard>>

KidNext ==
    \/ \E c \in ChoreCards : \/ handleStart(c) \/ handleStop(c) \/ handleTap(c)
                         \/ handleConfirmComplete(c) \/ handleDismissComplete(c)
    \/ ReloadKid
    \/ \E a \in asks : ServerTakesTimer(a) \/ AnsweredTimer(a)

-----------------------------------------------------------------------------
\* "Stop" is shown for a timer that runs: with no start or stop of a chore under way, a
\* button that offers to stop has an open entry behind it, unless an answer was
\* lost, superseded by another press of the same hook, the screen reloaded, or a start
\* and a stop of the chore were under way together.  Marks may be answered at any time.
StopMeansOpen ==
    \A c \in ChoreCards : kid[c].running /\ c \notin unheard /\ (\A a \in Timing : a.c # c)
                         => entries[c].open

\* The dialog that asks "Mark complete?" follows a stop: it never stands over a
\* timer that still runs, so logged time is closed before it is confirmed.
DialogAfterStop ==
    \A c \in ChoreCards : kid[c].awaiting /\ c \notin unheard /\ (\A a \in Timing : a.c # c)
                         => ~entries[c].open /\ entries[c].closed > 0

\* The timers a child sees are the server's (handleStart, handleStop and their
\* callbacks): Stop is for an open entry, the question for a closed one.
TimersHonest == StopMeansOpen /\ DialogAfterStop
=============================================================================
