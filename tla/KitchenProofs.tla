--------------------------- MODULE KitchenProofs ----------------------------
(***************************************************************************)
(* Proofs about the kitchen: for every bound on cells, items, jobs and     *)
(* requests, what its screens announce and tick is so, the socket's status *)
(* is true, and a list generated again keeps its ticks.  Each part has an  *)
(* inductive invariant of its own; the theorems at the end put them        *)
(* together.                                                               *)
(***************************************************************************)
EXTENDS MCKitchen, FiniteFacts

-----------------------------------------------------------------------------
(* The socket.                                                             *)

\* The inductive invariant of the socket: an open socket is the one there is, and one that
\* is connecting is not open yet.
SocketInv ==
    /\ W!SocketTypeOK /\ W!SocketHonest
    /\ sock.open => sock.live = 1
    /\ sock.status = "connecting" => sock.live = 1 /\ ~sock.open

\* The effect has not run yet.
LEMMA SocketInitInv == W!SocketInit => SocketInv
BY DEF W!SocketInit, SocketInv, W!SocketTypeOK, W!SocketHonest, W!OneSocket, W!StatusIsTrue,
       W!NoSocket, W!Tokens, W!BACKOFF_INITIAL

\* The types of the socket's record.
Counts == 0..2
States == {"connecting", "open", "closed", "error", "idle"}
Backoffs == {1, 2, 4, 8, 16, 30}
Socks == [dep : W!Tokens, live : Counts, open : BOOLEAN, timers : Counts, status : States,
          backoff : Backoffs, again : BOOLEAN]

\* scheduleRetry sets one timer more and keeps the rest.
LEMMA ScheduledKeeps ==
    ASSUME NEW s \in Socks, s.timers = 0
    PROVE  /\ W!Scheduled(s) \in Socks
           /\ W!Scheduled(s).timers = 1 /\ W!Scheduled(s).live = s.live
           /\ W!Scheduled(s).open = s.open /\ W!Scheduled(s).status = s.status
<1> DEFINE b == IF 2 * s.backoff < 30 THEN 2 * s.backoff ELSE 30
           t == W!Scheduled(s)
<1>1. t = [[s EXCEPT !.timers = 1] EXCEPT !.backoff = b]
  BY DEF W!Scheduled, Socks, W!BACKOFF_MAX
<1>2. b \in Backoffs /\ 1 \in Counts
  BY DEF Socks, Backoffs, Counts
<1>3. t \in Socks
  BY <1>1, <1>2 DEF Socks
<1>4. t.timers = 1 /\ t.live = s.live /\ t.open = s.open /\ t.status = s.status
  BY <1>1 DEF Socks
<1> QED
  BY <1>3, <1>4

\* connect() without a socket and a timer ends with exactly one of them.
LEMMA ConnectedKeeps ==
    ASSUME NEW s \in Socks, s.live = 0, s.timers = 0, ~s.open, NEW t \in W!Connected(s)
    PROVE  /\ t \in Socks /\ t.live + t.timers = 1 /\ ~t.open
           /\ (t.status = "connecting" /\ t.live = 1) \/ t.status = "error"
<1>1. CASE t = [s EXCEPT !.live = @ + 1, !.status = "connecting"]
  <2>0. 1 \in Counts /\ "connecting" \in States /\ t = [s EXCEPT !.live = 1, !.status = "connecting"]
    BY <1>1 DEF Counts, States
  <2>1. t \in Socks
    BY <2>0 DEF Socks
  <2>2. t.live = 1 /\ t.timers = 0 /\ t.open = s.open /\ t.status = "connecting"
    BY <1>1 DEF Socks
  <2> QED
    BY <2>1, <2>2
<1>2. CASE t = W!Scheduled([s EXCEPT !.status = "error"])
  <2> DEFINE e == [s EXCEPT !.status = "error"]
  <2>1. e \in Socks /\ e.timers = 0 /\ e.live = 0 /\ e.open = s.open /\ e.status = "error"
    BY DEF Socks, States
  <2> QED
    BY <1>2, <2>1, ScheduledKeeps DEF Socks
<1> QED
  BY <1>1, <1>2 DEF W!Connected

\* Every step keeps it.
LEMMA SocketStep == SocketInv /\ [W!SocketNext]_socketVars => SocketInv'
<1> SUFFICES ASSUME SocketInv, [W!SocketNext]_socketVars PROVE SocketInv'
  OBVIOUS
<1>0. /\ session \in W!Tokens /\ sock \in Socks /\ sock.live + sock.timers <= 1
      /\ sock.open <=> sock.status = "open"
      /\ sock.open => sock.live = 1
      /\ sock.status = "connecting" => sock.live = 1 /\ ~sock.open
  BY DEF SocketInv, W!SocketTypeOK, Socks, Counts, States, Backoffs, W!SocketHonest, W!OneSocket, W!StatusIsTrue
<1>a. SUFFICES /\ session' \in W!Tokens /\ sock' \in Socks /\ sock'.live + sock'.timers <= 1
               /\ sock'.open <=> sock'.status = "open"
               /\ sock'.open => sock'.live = 1
               /\ sock'.status = "connecting" => sock'.live = 1 /\ ~sock'.open
  BY DEF SocketInv, W!SocketTypeOK, Socks, Counts, States, Backoffs, W!SocketHonest, W!OneSocket, W!StatusIsTrue
<1>1. CASE UNCHANGED socketVars
  BY <1>0, <1>1 DEF socketVars
<1>2. CASE W!SessionChanges
  BY <1>0, <1>2 DEF W!SessionChanges
<1>3. CASE W!RunEffect
  <2> DEFINE clean == [W!Cleanup EXCEPT !.dep = session, !.again = FALSE]
  <2>1. clean \in Socks /\ clean.live = 0 /\ clean.timers = 0 /\ ~clean.open
    <3>0. 0 \in Counts
      BY DEF Counts
    <3>1. W!Cleanup \in Socks
      BY <1>0, <3>0 DEF W!Cleanup, Socks
    <3>2. W!Cleanup.live = 0 /\ W!Cleanup.timers = 0 /\ W!Cleanup.open = FALSE
      BY <1>0 DEF W!Cleanup, Socks
    <3> QED
      BY <1>0, <3>1, <3>2 DEF Socks
  <2>2. session' = session /\ sock' \in IF session = "none" THEN {[clean EXCEPT !.status = "idle"]} ELSE W!Connected(clean)
    BY <1>3 DEF W!RunEffect
  <2> HIDE DEF clean
  <2>3. CASE session = "none"
    <3>1. sock' = [clean EXCEPT !.status = "idle"]
      BY <2>2, <2>3
    <3> QED
      BY <1>0, <2>1, <2>2, <3>1 DEF Socks, States
  <2>4. CASE session # "none"
    <3>1. sock' \in W!Connected(clean)
      BY <2>2, <2>4
    <3>2. /\ sock' \in Socks /\ sock'.live + sock'.timers = 1 /\ ~sock'.open
          /\ (sock'.status = "connecting" /\ sock'.live = 1) \/ sock'.status = "error"
      BY <2>1, <3>1, ConnectedKeeps
    <3> QED
      BY <1>0, <2>2, <3>2 DEF Socks, Counts
  <2> QED
    BY <2>3, <2>4
<1>4. CASE W!onopen
  BY <1>0, <1>4 DEF W!onopen, Socks, Counts, States, Backoffs, W!BACKOFF_INITIAL
<1>5. CASE W!onerror
  BY <1>0, <1>5 DEF W!onerror, Socks, Counts, States
<1>6. CASE W!onclose
  <2> DEFINE s == [sock EXCEPT !.live = @ - 1, !.open = FALSE, !.status = "closed"]
  <2>1. s \in Socks /\ s.timers = 0 /\ s.live = 0 /\ s.open = FALSE /\ s.status = "closed"
    <3>1. sock.live = 1 /\ sock.timers = 0
      BY <1>0, <1>6 DEF W!onclose, Socks, Counts
    <3>2. s = [sock EXCEPT !.live = 0, !.open = FALSE, !.status = "closed"]
      BY <1>0, <3>1 DEF Socks
    <3>3. s \in Socks
      <4>1. 0 \in Counts /\ "closed" \in States
        BY DEF Counts, States
      <4> QED
        BY <1>0, <3>2, <4>1 DEF Socks
    <3> QED
      BY <1>0, <3>1, <3>2, <3>3 DEF Socks
  <2>2. sock' = W!Scheduled(s) /\ session' = session
    BY <1>6 DEF W!onclose
  <2> HIDE DEF s
  <2>3. sock' \in Socks /\ sock'.timers = 1 /\ sock'.live = 0 /\ ~sock'.open /\ sock'.status = "closed"
    BY <2>1, <2>2, ScheduledKeeps
  <2> QED
    BY <1>0, <2>2, <2>3
<1>7. CASE W!connect
  <2> DEFINE s == [sock EXCEPT !.timers = @ - 1]
  <2>1. s \in Socks /\ s.timers = 0 /\ s.live = 0 /\ ~s.open
    BY <1>0, <1>7 DEF W!connect, Socks, Counts
  <2>2. sock' \in W!Connected(s) /\ session' = session
    BY <1>7 DEF W!connect
  <2> HIDE DEF s
  <2>3. /\ sock' \in Socks /\ sock'.live + sock'.timers = 1 /\ ~sock'.open
        /\ (sock'.status = "connecting" /\ sock'.live = 1) \/ sock'.status = "error"
    BY <2>1, <2>2, ConnectedKeeps
  <2> QED
    BY <1>0, <2>2, <2>3 DEF Socks, Counts
<1>8. CASE W!reconnect
  BY <1>0, <1>8 DEF W!reconnect, Socks, Backoffs, W!BACKOFF_INITIAL
<1> QED
  BY <1>1, <1>2, <1>3, <1>4, <1>5, <1>6, <1>7, <1>8 DEF W!SocketNext

-----------------------------------------------------------------------------
(* Cooking mode.                                                           *)

\* The locks asked for and not refused, of this visit and of earlier ones.
Grants == late + left + (IF lock = "none" THEN 0 ELSE 1)
Minutes == 0..2
Idx == 1..3
Cooks == [open : BOOLEAN, loaded : BOOLEAN, idx : Idx, visits : Nat]
Timers == [on : BOOLEAN, remaining : Minutes, running : BOOLEAN, ticks : Minutes, from : 0..3]

\* The timer t belongs to a step of m minutes.
TimerOf(t, m) ==
    /\ t.on <=> m > 0
    /\ t.on => t.remaining + t.ticks = m
    /\ t.running => t.on /\ t.remaining > 0

\* The timer t, shown at step i, may come from another step of the same minutes.
CarriedTo(t, i) == t.on => \A j \in C!Between(t.from, i) : C!timerSeconds(j) = C!timerSeconds(i)

\* The inductive invariant of cooking mode: every visit asked for one lock, a recipe that
\* is loading has neither a timer nor a badge yet, and a running countdown is not at zero.
CookInv ==
    /\ steps \in C!Recipes
    /\ cook \in Cooks /\ cook.visits <= MaxVisits
    /\ cook.idx \in 1..Len(steps) \cup {1}
    /\ timer \in Timers /\ badge \in BOOLEAN
    /\ lock \in {"none", "asked", "held"} /\ late \in Nat /\ left \in Nat /\ Grants <= cook.visits
    /\ ~cook.open => lock = "none" 
    /\ cook.open /\ ~cook.loaded => cook.idx = 1 /\ ~badge
    /\ C!Cooking => TimerOf(timer, C!timerSeconds(cook.idx)) /\ CarriedTo(timer, cook.idx) /\ (badge => timer.on)
    /\ ~C!Cooking => timer = C!NoTimer

\* It is what the run checks.
LEMMA CookImplies == CookInv => C!CookTypeOK /\ C!CountdownHonest
<1> SUFFICES ASSUME CookInv PROVE C!CookTypeOK /\ C!CountdownHonest
  OBVIOUS
<1>1. C!CountdownHonest
  <2>1. timer.on \in BOOLEAN
    BY DEF CookInv, Timers
  <2> QED
    BY <2>1 DEF CookInv, C!CountdownHonest, TimerOf, CarriedTo
<1>2. late \in 0..MaxVisits /\ left \in 0..MaxVisits /\ cook.visits \in 0..MaxVisits
  BY BoundsAssumption DEF CookInv, Grants, Cooks
<1>3. cook \in [open : BOOLEAN, loaded : BOOLEAN, idx : Idx, visits : 0..MaxVisits]
  BY <1>2 DEF CookInv, Cooks
<1> QED
  BY <1>1, <1>2, <1>3 DEF CookInv, C!CookTypeOK, Idx, Timers, Minutes

\* Nobody cooks yet.
LEMMA CookInitInv == C!CookInit => CookInv
<1> SUFFICES ASSUME C!CookInit PROVE CookInv
  OBVIOUS
<1>1. 0 \in Minutes /\ 1 \in Idx /\ 0 <= MaxVisits
  BY BoundsAssumption DEF Minutes, Idx
<1>2. ~C!Cooking
  BY DEF C!CookInit, C!Cooking
<1>3. C!NoTimer \in Timers
  BY <1>1 DEF C!NoTimer, Timers
<1>4. cook \in Cooks /\ badge \in BOOLEAN
  BY <1>1 DEF C!CookInit, Cooks
<1> QED
  BY <1>1, <1>2, <1>3, <1>4 DEF C!CookInit, CookInv, Grants

\* A step of a recipe names at most two minutes.
LEMMA StepMinutes == ASSUME steps \in C!Recipes, NEW i \in Nat PROVE C!timerSeconds(i) \in Minutes
<1>1. CASE i \in DOMAIN steps
  <2>1. CASE steps = << >>
    BY <1>1, <2>1
  <2>2. CASE steps = <<1, 0>>
    <3>1. i \in 1..2
      BY <1>1, <2>2
    <3> QED
      BY <3>1, <2>2 DEF C!timerSeconds, Minutes
  <2>3. CASE steps = <<2, 2, 1>>
    <3>1. i \in 1..3
      BY <1>1, <2>3
    <3> QED
      BY <3>1, <2>3 DEF C!timerSeconds, Minutes
  <2>4. CASE steps = <<1, 0, 2>>
    <3>1. i \in 1..3
      BY <1>1, <2>4
    <3> QED
      BY <3>1, <2>4 DEF C!timerSeconds, Minutes
  <2> QED
    BY <2>1, <2>2, <2>3, <2>4 DEF C!Recipes
<1>2. CASE i \notin DOMAIN steps
  BY <1>2 DEF C!timerSeconds, Minutes
<1> QED
  BY <1>1, <1>2

\* A recipe has at most three steps.
LEMMA RecipeLength == ASSUME steps \in C!Recipes PROVE Len(steps) \in 0..3 /\ (steps # << >> => Len(steps) > 0)
BY DEF C!Recipes

\* A timer that starts anew belongs to its step.
LEMMA FreshTimer ==
    ASSUME NEW i \in Idx, C!timerSeconds(i) \in Minutes
    PROVE  /\ C!StepTimer(i) \in Timers /\ TimerOf(C!StepTimer(i), C!timerSeconds(i))
           /\ CarriedTo(C!StepTimer(i), i)
<1> DEFINE m == C!timerSeconds(i)
<1>0. 0 \in Minutes /\ m \in Nat /\ m \in Minutes /\ i \in 0..3 /\ 0 \in 0..3 /\ i \in Nat
  BY DEF Minutes, Idx
<1>1. CASE m = 0
  <2>1. C!StepTimer(i) = [on |-> FALSE, remaining |-> 0, running |-> FALSE, ticks |-> 0, from |-> 0]
    BY <1>1 DEF C!StepTimer, C!NoTimer
  <2>2. C!StepTimer(i) \in Timers
    BY <1>0, <2>1 DEF Timers
  <2> QED
    BY <1>1, <2>1, <2>2 DEF TimerOf, CarriedTo
<1>2. CASE m # 0
  <2>1. C!StepTimer(i) = [on |-> TRUE, remaining |-> m, running |-> FALSE, ticks |-> 0, from |-> i]
    BY <1>2 DEF C!StepTimer
  <2>2. C!StepTimer(i) \in Timers
    <3> HIDE DEF m
    <3> QED
      BY <1>0, <2>1 DEF Timers
  <2>3. TimerOf(C!StepTimer(i), m)
    <3> HIDE DEF m
    <3>1. m > 0 /\ m + 0 = m
      BY <1>0, <1>2
    <3> QED
      BY <2>1, <3>1 DEF TimerOf
  <2>6. CarriedTo(C!StepTimer(i), i)
    <3>1. \A j \in C!Between(i, i) : j = i
      BY <1>0 DEF C!Between
    <3> QED
      BY <2>1, <3>1 DEF CarriedTo
  <2> QED
    BY <2>2, <2>3, <2>6
<1> QED
  BY <1>1, <1>2

\* Another step of the same recipe.
LEMMA GoToKeeps ==
    ASSUME CookInv, C!Cooking, NEW i \in 1..Len(steps), i = cook.idx + 1 \/ i = cook.idx - 1, C!GoTo(i)
    PROVE  CookInv'
<1>1. /\ cook' = [cook EXCEPT !.idx = i]
      /\ timer' = IF timer.on /\ C!timerSeconds(i) = C!timerSeconds(cook.idx) THEN timer ELSE C!StepTimer(i)
      /\ ~badge'
      /\ badge' \in BOOLEAN
      /\ UNCHANGED <<steps, lock, late, left>>
  BY DEF C!GoTo, C!TimerFor, C!timerDoneReset
<1>2. i \in Idx /\ i \in Nat
  <2>1. PICK n \in 0..3 : n = Len(steps)
    BY RecipeLength DEF CookInv
  <2>2. i \in 1..n
    BY <2>1
  <2> HIDE <2>1
  <2>3. i \in Nat /\ i <= 3
    BY <2>2, SMT
  <2> QED
    BY <2>3, <2>2 DEF Idx
<1>3. /\ cook' \in Cooks /\ cook'.idx = i /\ cook'.open = cook.open /\ cook'.loaded = cook.loaded
      /\ cook'.visits = cook.visits
  BY <1>1, <1>2 DEF CookInv, Cooks
<1>4. C!Cooking' /\ C!timerSeconds(cook.idx)' = C!timerSeconds(i)
  BY <1>1, <1>3 DEF C!Cooking, C!timerSeconds
<1>5. C!timerSeconds(i) \in Minutes
  BY <1>2, StepMinutes DEF CookInv
<1>6. timer' \in Timers /\ TimerOf(timer', C!timerSeconds(i)) /\ CarriedTo(timer', i)
  <2>1. CASE timer.on /\ C!timerSeconds(i) = C!timerSeconds(cook.idx)
    <3>1. timer' = timer /\ timer \in Timers /\ TimerOf(timer, C!timerSeconds(i)) /\ CarriedTo(timer, cook.idx)
      BY <1>1, <2>1 DEF CookInv
    <3>2. cook.idx \in Nat /\ timer.from \in Nat /\ DOMAIN steps \subseteq Nat
      BY <1>2 DEF CookInv, Cooks, Timers, Idx, C!Recipes
    <3>3. C!Between(timer.from, i) \subseteq C!Between(timer.from, cook.idx) \cup {i}
      BY <1>2, <3>2 DEF C!Between
    <3>4. CarriedTo(timer, i)
      BY <2>1, <3>1, <3>3 DEF CarriedTo
    <3> QED
      BY <3>1, <3>4
  <2>2. CASE ~(timer.on /\ C!timerSeconds(i) = C!timerSeconds(cook.idx))
    BY <1>1, <1>2, <1>5, <2>2, FreshTimer
  <2> QED
    BY <2>1, <2>2
<1>7. TimerOf(timer, C!timerSeconds(cook.idx))'
  BY <1>4, <1>6 DEF TimerOf
<1>8. CarriedTo(timer, cook.idx)'
  BY <1>1, <1>3, <1>6 DEF CarriedTo, C!Between, C!timerSeconds
<1> QED
  BY <1>1, <1>3, <1>4, <1>6, <1>7, <1>8 DEF CookInv, Grants, C!Cooking

\* Every step of cooking mode keeps it.
LEMMA CookStep == CookInv /\ [C!CookNext]_cookVars => CookInv'
<1> SUFFICES ASSUME CookInv, [C!CookNext]_cookVars PROVE CookInv'
  OBVIOUS
<1> USE BoundsAssumption
<1>0. /\ steps \in C!Recipes /\ cook \in Cooks /\ cook.visits \in Nat /\ cook.visits <= MaxVisits
      /\ cook.idx \in Idx /\ timer \in Timers /\ badge \in BOOLEAN
      /\ late \in Nat /\ left \in Nat
      /\ lock \in {"none", "asked", "held"}
      /\ 0 \in Minutes /\ 1 \in Idx
  BY DEF CookInv, Cooks, Minutes, Idx
<1>1. CASE UNCHANGED cookVars
  BY <1>1 DEF cookVars, CookInv, Grants, C!Cooking, C!timerSeconds, C!Between, C!NoTimer, TimerOf, CarriedTo
<1>2. CASE C!Enter
  <2>1. /\ ~cook.open /\ cook.visits < MaxVisits
        /\ cook' = [open |-> TRUE, loaded |-> FALSE, idx |-> 1, visits |-> cook.visits + 1]
        /\ lock' = "asked" /\ timer' = C!NoTimer /\ badge' = FALSE
        /\ UNCHANGED <<steps, late, left>>
    BY <1>2 DEF C!Enter
  <2>2. cook' \in Cooks /\ badge' \in BOOLEAN /\ timer' \in Timers
    <3>1. cook.visits + 1 \in Nat /\ 1 \in Idx
      BY <1>0 DEF Idx
    <3>2. C!NoTimer \in Timers
      BY DEF C!NoTimer, Timers, Minutes
    <3> QED
      BY <2>1, <3>1, <3>2 DEF Cooks
  <2>3. ~C!Cooking'
    BY <2>1 DEF C!Cooking
  <2>4. Grants' <= cook'.visits
    BY <1>0, <2>1 DEF CookInv, Grants
  <2> QED
    BY <1>0, <2>1, <2>2, <2>3, <2>4 DEF CookInv, C!NoTimer, C!Cooking
<1>3. CASE C!RecipeLoads
  <2>1. /\ cook.open /\ ~cook.loaded
        /\ cook' = [cook EXCEPT !.loaded = TRUE]
        /\ timer' = C!StepTimer(1)
        /\ UNCHANGED <<steps, badge, lock, late, left>>
    BY <1>3 DEF C!RecipeLoads
  <2>2. /\ cook' \in Cooks /\ cook'.open /\ cook'.loaded /\ cook'.idx = cook.idx /\ cook.idx = 1
        /\ cook'.visits = cook.visits
    BY <1>0, <2>1 DEF Cooks, CookInv
  <2>3. C!timerSeconds(cook.idx)' = C!timerSeconds(1) /\ C!timerSeconds(1) \in Minutes
    BY <1>0, <2>1, <2>2, StepMinutes DEF C!timerSeconds
  <2>4. timer' \in Timers /\ TimerOf(timer, C!timerSeconds(cook.idx))' /\ CarriedTo(timer, cook.idx)'
    <3>1. /\ C!StepTimer(1) \in Timers /\ TimerOf(C!StepTimer(1), C!timerSeconds(1))
          /\ CarriedTo(C!StepTimer(1), 1)
      BY <1>0, <2>3, FreshTimer
    <3> QED
      BY <2>1, <2>2, <2>3, <3>1 DEF TimerOf, CarriedTo, C!Between, C!timerSeconds
  <2>5. C!Cooking' <=> steps # << >>
    BY <2>1, <2>2 DEF C!Cooking
  <2>6. steps = << >> => timer' = C!NoTimer
    BY <2>1 DEF C!StepTimer, C!timerSeconds
  <2>7. ~badge'
    BY <2>1 DEF CookInv
  <2> QED
    BY <1>0, <2>1, <2>2, <2>4, <2>5, <2>6, <2>7 DEF CookInv, Grants, C!NoTimer
<1>4. CASE C!acquire
  <2>1. /\ \/ lock = "asked" /\ lock' \in {"held", "none"} /\ UNCHANGED <<late, left>>
           \/ late > 0 /\ late' = late - 1 /\ left' \in {left, left + 1} /\ UNCHANGED lock
        /\ UNCHANGED <<steps, cook, timer, badge>>
    BY <1>4 DEF C!acquire
  <2>2. /\ lock' \in {"none", "asked", "held"} /\ late' \in Nat /\ left' \in Nat /\ Grants' <= cook.visits
        /\ (lock = "none" => lock' = "none")
    BY <1>0, <2>1 DEF CookInv, Grants
  <2> QED
    BY <2>1, <2>2 DEF CookInv, C!Cooking, C!timerSeconds, C!Between, C!NoTimer, TimerOf, CarriedTo
<1>5. CASE C!Exit
  <2>1. /\ cook' = [cook EXCEPT !.open = FALSE] /\ lock' = "none"
        /\ late' = (IF lock = "asked" THEN late + 1 ELSE late) /\ timer' = C!NoTimer
        /\ UNCHANGED <<steps, badge, left>>
    BY <1>5 DEF C!Exit, C!release
  <2>2. cook' \in Cooks /\ ~cook'.open /\ cook'.idx = cook.idx /\ cook'.visits = cook.visits
    BY <1>0, <2>1 DEF Cooks
  <2>3. late' \in Nat /\ Grants' <= cook'.visits
    <3>1. late \in Nat /\ left \in Nat /\ cook.visits \in Nat /\ Grants <= cook.visits
      BY <1>0 DEF CookInv, Cooks
    <3> QED
      BY <2>1, <2>2, <3>1 DEF Grants
  <2>4. timer' \in Timers
    BY <1>0, <2>1 DEF Timers, C!NoTimer
  <2> QED
    BY <1>0, <2>1, <2>2, <2>3, <2>4 DEF CookInv, C!Cooking, C!NoTimer
<1>6. CASE C!NextStep
  <2>1. C!Cooking /\ cook.idx # Len(steps) /\ C!GoTo(cook.idx + 1)
    BY <1>6 DEF C!NextStep, C!isLast
  <2>2. cook.idx + 1 \in 1..Len(steps)
    BY <1>0, <2>1, RecipeLength DEF CookInv, Idx, C!Cooking
  <2> QED
    BY <2>1, <2>2, GoToKeeps
<1>7. CASE C!Previous
  <2>1. C!Cooking /\ cook.idx # 1 /\ C!GoTo(cook.idx - 1)
    BY <1>7 DEF C!Previous, C!isFirst
  <2>2. cook.idx - 1 \in 1..Len(steps)
    BY <1>0, <2>1, RecipeLength DEF CookInv, Idx, C!Cooking
  <2> QED
    BY <2>1, <2>2, GoToKeeps
<1>8. CASE C!Countdown
  <2>0. C!Cooking /\ UNCHANGED <<steps, cook, lock, late, left>>
    BY <1>8 DEF C!Countdown, C!TimerStart, C!TimerPause, C!TimerReset, C!Tick
  <2>a. C!Cooking' /\ TimerOf(timer, C!timerSeconds(cook.idx))
    BY <2>0 DEF C!Cooking, CookInv
  <2>b. cook.idx \in Nat /\ C!timerSeconds(cook.idx) \in Minutes
    BY <1>0, StepMinutes DEF Idx
  <2>c. /\ timer.on \in BOOLEAN /\ timer.running \in BOOLEAN /\ timer.remaining \in Minutes /\ timer.ticks \in Minutes
    BY <1>0 DEF Timers
  <2>d. SUFFICES /\ timer' \in Timers /\ TimerOf(timer', C!timerSeconds(cook.idx))
                 /\ CarriedTo(timer', cook.idx)
                 /\ badge' \in BOOLEAN /\ (badge' => timer'.on)
    <3>1. C!timerSeconds(cook.idx)' = C!timerSeconds(cook.idx)
      BY <2>0 DEF C!timerSeconds
    <3>2. TimerOf(timer, C!timerSeconds(cook.idx))' /\ CarriedTo(timer, cook.idx)'
      BY <2>0, <2>d, <3>1 DEF TimerOf, CarriedTo, C!Between, C!timerSeconds
    <3> QED
      BY <1>0, <2>0, <2>a, <2>d, <3>2 DEF CookInv, Grants, C!Cooking
  <2>e. CarriedTo(timer, cook.idx) /\ (badge => timer.on)
    BY <2>0 DEF CookInv
  <2>1. CASE C!TimerStart
    <3>1. timer' = [timer EXCEPT !.running = TRUE] /\ badge' = badge /\ timer.on /\ timer.remaining > 0
      BY <2>1 DEF C!TimerStart
    <3>2. /\ timer' \in Timers /\ timer'.on = timer.on /\ timer'.remaining = timer.remaining
          /\ timer'.ticks = timer.ticks /\ timer'.from = timer.from
      BY <1>0, <3>1 DEF Timers
    <3> QED
      BY <1>0, <2>a, <2>e, <3>1, <3>2 DEF TimerOf, CarriedTo
  <2>2. CASE C!TimerPause
    <3>1. timer' = [timer EXCEPT !.running = FALSE] /\ badge' = badge
      BY <2>2 DEF C!TimerPause
    <3>2. /\ timer' \in Timers /\ timer'.on = timer.on /\ timer'.remaining = timer.remaining
          /\ timer'.ticks = timer.ticks /\ timer'.from = timer.from /\ ~timer'.running
      BY <1>0, <3>1 DEF Timers
    <3> QED
      BY <1>0, <2>a, <2>e, <3>1, <3>2 DEF TimerOf, CarriedTo
  <2>3. CASE C!TimerReset
    <3>1. timer' = C!StepTimer(cook.idx) /\ badge' = badge /\ timer.on
      BY <2>3 DEF C!TimerReset
    <3>2. C!StepTimer(cook.idx).on
      BY <2>a, <3>1 DEF TimerOf, C!StepTimer
    <3> QED
      BY <1>0, <2>b, <2>e, <3>1, <3>2, FreshTimer
  <2>4. CASE C!Tick
    <3> DEFINE r == IF timer.remaining <= 1 THEN 0 ELSE timer.remaining - 1
    <3>1. /\ timer.running
          /\ timer' = [timer EXCEPT !.remaining = r, !.ticks = timer.ticks + 1, !.running = timer.remaining > 1]
          /\ badge' = (badge \/ timer.remaining <= 1)
      BY <1>0, <2>4 DEF C!Tick, Timers
    <3>2. timer.on /\ timer.remaining > 0 /\ timer.remaining + timer.ticks = C!timerSeconds(cook.idx)
      BY <2>a, <3>1 DEF TimerOf
    <3>3. /\ r \in Minutes /\ timer.ticks + 1 \in Minutes /\ r + (timer.ticks + 1) = C!timerSeconds(cook.idx)
          /\ (timer.remaining > 1 => r > 0) /\ (timer.remaining > 1) \in BOOLEAN
      BY <2>b, <2>c, <3>2 DEF Minutes
    <3>4. /\ timer' \in Timers /\ timer'.on = timer.on /\ timer'.remaining = r
          /\ timer'.from = timer.from /\ timer'.ticks = timer.ticks + 1 /\ timer'.running = (timer.remaining > 1)
      BY <1>0, <3>1, <3>3 DEF Timers
    <3>5. TimerOf(timer', C!timerSeconds(cook.idx))
      BY <2>a, <3>2, <3>3, <3>4 DEF TimerOf
    <3>6. CarriedTo(timer', cook.idx)
      BY <2>e, <3>4 DEF CarriedTo
    <3>7. badge' \in BOOLEAN /\ (badge' => timer'.on)
      BY <1>0, <3>1, <3>2, <3>4
    <3> QED
      BY <3>4, <3>5, <3>6, <3>7
  <2> QED
    BY <1>8, <2>1, <2>2, <2>3, <2>4 DEF C!Countdown
<1> QED
  BY <1>1, <1>2, <1>3, <1>4, <1>5, <1>6, <1>7, <1>8 DEF C!CookNext

\* No step but a late answer of the browser adds to the locks left behind.
LEMMA CookGrants == CookInv /\ [C!CookNext]_cookVars => (left' > left => late' < late)
<1> SUFFICES ASSUME CookInv, [C!CookNext]_cookVars, left' > left PROVE late' < late
  OBVIOUS
<1>1. late \in Nat /\ left \in Nat
  BY DEF CookInv
<1>2. left' # left
  BY <1>1
<1>3. C!acquire
  BY <1>2 DEF cookVars, C!CookNext, C!Enter, C!RecipeLoads, C!Exit, C!release, C!NextStep, C!Previous, C!GoTo,
              C!Countdown, C!TimerStart, C!TimerPause, C!TimerReset, C!Tick
<1> QED
  BY <1>1, <1>2, <1>3 DEF C!acquire

-----------------------------------------------------------------------------
(* Importing a recipe.                                                     *)

JobRecords == [status : J!Statuses, recipe : BOOLEAN,
               work : {"scrape", "mark", "markFailed", "over", "killed"}, ctx : {"live", "expired"}]
StartRecords == [at : {"sent", "done", "lost", "over", "failed"}, job : Nat]
Forms == [url : BOOLEAN, jobId : Nat, failed : BOOLEAN]

\* The inductive invariant of the import page: a job about to be marked has its recipe, a
\* job that answered exists, and a panel with a job is about the last call, already
\* answered, and has polled that job only.
JobInv ==
    /\ jobs \in Seq(JobRecords) /\ starts \in Seq(StartRecords) /\ form \in Forms
    /\ polled \in {"none"} \cup J!Statuses
    /\ Len(starts) <= MaxJobs
    /\ form.jobId <= Len(jobs)
    /\ \A k \in 1..Len(starts) : starts[k].job <= Len(jobs) /\ (starts[k].at = "done" => starts[k].job # 0)
    /\ \A j \in 1..Len(jobs) : jobs[j].work = "mark" \/ jobs[j].status = "succeeded" => jobs[j].recipe
    /\ form.jobId = 0 => polled = "none"
    /\ form.jobId # 0 => /\ Len(starts) > 0
                         /\ starts[Len(starts)].at = "over" /\ starts[Len(starts)].job = form.jobId
                         /\ polled = "succeeded" => jobs[form.jobId].recipe

\* It is what the run checks.
LEMMA JobImplies == JobInv => J!JobTypeOK /\ J!PanelIsLatest /\ J!LinkOpens
<1> SUFFICES ASSUME JobInv PROVE J!JobTypeOK /\ J!PanelIsLatest /\ J!LinkOpens
  OBVIOUS
<1>1. J!PanelIsLatest
  BY DEF JobInv, J!PanelIsLatest
<1>2. J!LinkOpens
  <2> SUFFICES ASSUME J!liveJob = "succeeded" PROVE jobs[form.jobId].recipe
    BY DEF J!LinkOpens, J!ImportStatusPanel
  <2>1. form.jobId # 0 /\ polled = "succeeded"
    BY DEF J!liveJob
  <2> QED
    BY <2>1 DEF JobInv
<1>3. Len(jobs) \in Nat /\ DOMAIN jobs = 1..Len(jobs) /\ DOMAIN starts = 1..Len(starts)
  BY DEF JobInv
<1>4. \A j \in 1..Len(jobs) : jobs[j] \in JobRecords
  BY ElementOfSeq DEF JobInv
<1>5. \A k \in 1..Len(starts) : starts[k] \in StartRecords
  BY ElementOfSeq DEF JobInv
<1>6. \A k \in 1..Len(starts) : starts[k] \in [at : {"sent", "done", "lost", "over", "failed"}, job : 0..Len(jobs)]
  <2> TAKE k \in 1..Len(starts)
  <2>1. starts[k] \in StartRecords /\ starts[k].job <= Len(jobs)
    BY <1>5 DEF JobInv
  <2>2. starts[k].job \in 0..Len(jobs)
    BY <1>3, <2>1 DEF StartRecords
  <2> QED
    BY <2>1, <2>2 DEF StartRecords
<1>7. form \in [url : BOOLEAN, jobId : 0..Len(jobs), failed : BOOLEAN]
  <2>1. form.jobId \in 0..Len(jobs)
    BY <1>3 DEF JobInv, Forms
  <2> QED
    BY <2>1 DEF JobInv, Forms
<1>8. J!JobTypeOK
  BY <1>3, <1>4, <1>6, <1>7 DEF JobInv, J!JobTypeOK, JobRecords
<1> QED
  BY <1>1, <1>2, <1>8

\* Nothing is imported yet.
LEMMA JobInitInv == J!JobInit => JobInv
BY BoundsAssumption DEF J!JobInit, JobInv, Forms

\* What happens to one job, as the page sees it: a recipe saved stays saved, and nothing
\* marked or about to be marked as succeeded lacks one.
LEMMA JobsChange ==
    ASSUME JobInv, UNCHANGED <<form, starts, polled>>,
           jobs' \in Seq(JobRecords), Len(jobs') = Len(jobs),
           \A j \in 1..Len(jobs) : /\ jobs[j].recipe => jobs'[j].recipe
                                   /\ jobs'[j].work = "mark" \/ jobs'[j].status = "succeeded" => jobs'[j].recipe
    PROVE  JobInv'
<1>1. Len(jobs) \in Nat /\ form.jobId \in Nat
  BY DEF JobInv, Forms
<1>2. form.jobId # 0 => form.jobId \in 1..Len(jobs)
  BY <1>1 DEF JobInv
<1> QED
  BY <1>1, <1>2 DEF JobInv

\* One job changed.
LEMMA OneJobChanges ==
    ASSUME JobInv, UNCHANGED <<form, starts, polled>>, NEW j \in 1..Len(jobs), NEW r \in JobRecords,
           jobs' = [jobs EXCEPT ![j] = r], jobs[j].recipe => r.recipe, r.work = "mark" \/ r.status = "succeeded" => r.recipe
    PROVE  JobInv'
<1>1. jobs \in Seq(JobRecords) /\ Len(jobs) \in Nat
  BY DEF JobInv
<1>2. jobs' \in Seq(JobRecords) /\ Len(jobs') = Len(jobs)
  BY <1>1
<1>3. \A i \in 1..Len(jobs) : jobs'[i] = IF i = j THEN r ELSE jobs[i]
  BY <1>1
<1> QED
  BY <1>2, <1>3, JobsChange DEF JobInv

\* Every step of the import keeps it.
LEMMA JobStep == JobInv /\ [J!JobNext]_jobVars => JobInv'
<1> SUFFICES ASSUME JobInv, [J!JobNext]_jobVars PROVE JobInv'
  OBVIOUS
<1>0. /\ jobs \in Seq(JobRecords) /\ starts \in Seq(StartRecords) /\ form \in Forms
      /\ Len(jobs) \in Nat /\ Len(starts) \in Nat /\ DOMAIN jobs = 1..Len(jobs) /\ DOMAIN starts = 1..Len(starts)
      /\ form.jobId \in Nat /\ form.jobId <= Len(jobs)
  BY DEF JobInv, Forms
<1>a. \A j \in 1..Len(jobs) : jobs[j] \in JobRecords
  BY <1>0, ElementOfSeq
<1>b. \A k \in 1..Len(starts) : starts[k] \in StartRecords
  BY <1>0, ElementOfSeq
<1>c. form.jobId # 0 => form.jobId \in 1..Len(jobs)
  BY <1>0
<1>1. CASE UNCHANGED jobVars
  BY <1>1 DEF jobVars, JobInv
<1>2. CASE J!setUrl
  <2>1. form' = [form EXCEPT !.url = TRUE] /\ UNCHANGED <<jobs, starts, polled>>
    BY <1>2 DEF J!setUrl
  <2>2. form' \in Forms /\ form'.jobId = form.jobId
    BY <1>0, <2>1 DEF Forms
  <2> QED
    BY <2>1, <2>2 DEF JobInv
<1>3. CASE J!handleImport
  <2> DEFINE s == [at |-> "sent", job |-> 0]
  <2>1. /\ Len(starts) < MaxJobs /\ form' = [form EXCEPT !.jobId = 0, !.failed = FALSE] /\ polled' = "none"
        /\ starts' = Append(starts, s) /\ jobs' = jobs
    BY <1>3 DEF J!handleImport
  <2>2. form' \in Forms /\ form'.jobId = 0
    BY <1>0, <2>1 DEF Forms
  <2>3. s \in StartRecords /\ s.at = "sent" /\ s.job = 0
    BY DEF StartRecords
  <2> HIDE DEF s
  <2>4. /\ starts' \in Seq(StartRecords) /\ Len(starts') = Len(starts) + 1
        /\ \A k \in 1..Len(starts') : starts'[k] = IF k = Len(starts) + 1 THEN s ELSE starts[k]
    BY <1>0, <2>1, <2>3
  <2>5. Len(starts') <= MaxJobs
    BY <1>0, <2>1, <2>4, BoundsAssumption
  <2>6. \A k \in 1..Len(starts') : starts'[k].job <= Len(jobs) /\ (starts'[k].at = "done" => starts'[k].job # 0)
    BY <1>0, <2>3, <2>4 DEF JobInv
  <2> QED
    BY <1>0, <2>1, <2>2, <2>4, <2>5, <2>6 DEF JobInv
<1>4. CASE J!useImportJob
  <2>1. form.jobId # 0 /\ polled' = jobs[form.jobId].status /\ UNCHANGED <<jobs, form, starts>>
    BY <1>4 DEF J!useImportJob
  <2>2. polled' \in J!Statuses
    BY <1>a, <1>c, <2>1 DEF JobRecords
  <2>3. polled' = "succeeded" => jobs[form.jobId].recipe
    BY <1>c, <2>1 DEF JobInv
  <2> QED
    BY <2>1, <2>2, <2>3 DEF JobInv
<1>5. CASE J!Restart
  <2>1. /\ jobs' = [j \in 1..Len(jobs) |-> [jobs[j] EXCEPT !.work = IF @ = "over" THEN @ ELSE "killed"]]
        /\ UNCHANGED <<form, starts, polled>>
    BY <1>0, <1>5 DEF J!Restart
  <2>2. \A j \in 1..Len(jobs) : /\ jobs'[j] \in JobRecords /\ jobs'[j].recipe = jobs[j].recipe
                                /\ jobs'[j].status = jobs[j].status /\ jobs'[j].work # "mark"
    BY <1>a, <2>1 DEF JobRecords
  <2>3. jobs' \in Seq(JobRecords) /\ Len(jobs') = Len(jobs)
    <3>1. jobs' \in [1..Len(jobs) -> JobRecords]
      BY <2>1, <2>2
    <3> QED
      BY <1>0, <3>1
  <2>4. UNCHANGED <<form, starts, polled>>
    BY <2>1
  <2>5. \A j \in 1..Len(jobs) : /\ jobs[j].recipe => jobs'[j].recipe
                                /\ jobs'[j].work = "mark" \/ jobs'[j].status = "succeeded" => jobs'[j].recipe
    BY <2>2 DEF JobInv
  <2> QED
    BY <2>3, <2>4, <2>5, JobsChange
<1>6. ASSUME NEW k \in 1..Len(starts), J!StartImportJob(k) PROVE JobInv'
  <2>0. starts[k].at = "sent" /\ UNCHANGED <<form, polled>> /\ starts[k] \in StartRecords
    BY <1>6, <1>b DEF J!StartImportJob
  <2>1. CASE /\ jobs' = Append(jobs, [status |-> "running", recipe |-> FALSE, work |-> "scrape", ctx |-> "live"])
             /\ \E at \in {"done", "lost"} : starts' = [starts EXCEPT ![k].at = at, ![k].job = Len(jobs) + 1]
    <3> DEFINE n == [status |-> "running", recipe |-> FALSE, work |-> "scrape", ctx |-> "live"]
    <3>1. n \in JobRecords /\ n.work = "scrape" /\ n.status = "running"
      BY DEF JobRecords, J!Statuses
    <3>2. PICK at \in {"done", "lost"} : starts' = [starts EXCEPT ![k].at = at, ![k].job = Len(jobs) + 1]
      BY <2>1
    <3>3. PICK s : s = [starts[k] EXCEPT !.at = at, !.job = Len(jobs) + 1]
      OBVIOUS
    <3>4. s \in StartRecords /\ s.at = at /\ s.job = Len(jobs) + 1
      <4>1. Len(jobs) + 1 \in Nat
        BY <1>0
      <4> HIDE <1>0
      <4> QED
        BY <2>0, <3>3, <4>1 DEF StartRecords
    <3>5. starts' = [starts EXCEPT ![k] = s]
      BY <1>0, <3>2, <3>3
    <3>6. /\ starts' \in Seq(StartRecords) /\ Len(starts') = Len(starts)
          /\ \A l \in 1..Len(starts) : starts'[l] = IF l = k THEN s ELSE starts[l]
      BY <1>0, <3>4, <3>5
    <3> HIDE DEF n
    <3>7. /\ jobs' \in Seq(JobRecords) /\ Len(jobs') = Len(jobs) + 1
          /\ \A j \in 1..Len(jobs') : jobs'[j] = IF j = Len(jobs) + 1 THEN n ELSE jobs[j]
      BY <1>0, <2>1, <3>1 DEF n
    <3>8. \A l \in 1..Len(starts') : starts'[l].job <= Len(jobs') /\ (starts'[l].at = "done" => starts'[l].job # 0)
      <4> TAKE l \in 1..Len(starts')
      <4>1. starts[l] \in StartRecords /\ starts[l].job \in Nat /\ starts[l].job <= Len(jobs)
        BY <1>b, <3>6 DEF JobInv, StartRecords
      <4> QED
        BY <1>0, <3>4, <3>6, <3>7, <4>1 DEF JobInv
    <3>9. \A j \in 1..Len(jobs') : jobs'[j].work = "mark" \/ jobs'[j].status = "succeeded" => jobs'[j].recipe
      BY <1>0, <3>1, <3>7 DEF JobInv
    <3>10. form.jobId # 0 => /\ starts'[Len(starts)] = starts[Len(starts)]
                             /\ jobs'[form.jobId] = jobs[form.jobId]
      BY <1>0, <1>c, <2>0, <3>6, <3>7 DEF JobInv
    <3> QED
      BY <1>0, <2>0, <3>6, <3>7, <3>8, <3>9, <3>10 DEF JobInv
  <2>2. CASE starts' = [starts EXCEPT ![k].at = "lost"] /\ UNCHANGED jobs
    <3>3. PICK s : s = [starts[k] EXCEPT !.at = "lost"]
      OBVIOUS
    <3>4. s \in StartRecords /\ s.at = "lost" /\ s.job = starts[k].job
      BY <1>0, <2>0, <3>3 DEF StartRecords
    <3>5. starts' = [starts EXCEPT ![k] = s]
      BY <1>0, <2>2, <3>3
    <3>6. /\ starts' \in Seq(StartRecords) /\ Len(starts') = Len(starts)
          /\ \A l \in 1..Len(starts) : starts'[l] = IF l = k THEN s ELSE starts[l]
      BY <1>0, <3>4, <3>5
    <3>8. \A l \in 1..Len(starts') : starts'[l].job <= Len(jobs') /\ (starts'[l].at = "done" => starts'[l].job # 0)
      BY <2>2, <3>4, <3>6 DEF JobInv
    <3>10. form.jobId # 0 => starts'[Len(starts)] = starts[Len(starts)]
      BY <1>0, <2>0, <3>6 DEF JobInv
    <3> QED
      BY <1>0, <2>0, <2>2, <3>6, <3>8, <3>10 DEF JobInv
  <2> QED
    BY <1>6, <2>1, <2>2 DEF J!StartImportJob
<1>7. ASSUME NEW k \in 1..Len(starts), J!startJobAnswered(k) PROVE JobInv'
  <2>1. /\ starts[k].at \in {"done", "lost"}
        /\ starts' = [starts EXCEPT ![k].at = IF @ = "done" THEN "over" ELSE "failed"]
        /\ form' = IF k < Len(starts) THEN form
                   ELSE IF starts[k].at = "done" THEN [form EXCEPT !.jobId = starts[k].job, !.url = FALSE]
                   ELSE [form EXCEPT !.failed = TRUE]
        /\ UNCHANGED <<jobs, polled>> /\ starts[k] \in StartRecords
    BY <1>7, <1>b DEF J!startJobAnswered, J!Answers
  <2>2. PICK s : s = [starts[k] EXCEPT !.at = IF @ = "done" THEN "over" ELSE "failed"]
    OBVIOUS
  <2>3. /\ s \in StartRecords /\ s.job = starts[k].job /\ s.at = (IF starts[k].at = "done" THEN "over" ELSE "failed")
    BY <2>1, <2>2 DEF StartRecords
  <2>4. starts' = [starts EXCEPT ![k] = s]
    BY <1>0, <2>1, <2>2
  <2>5. /\ starts' \in Seq(StartRecords) /\ Len(starts') = Len(starts)
        /\ \A l \in 1..Len(starts) : starts'[l] = IF l = k THEN s ELSE starts[l]
    BY <1>0, <2>3, <2>4
  <2>6. \A l \in 1..Len(starts') : starts'[l].job <= Len(jobs') /\ (starts'[l].at = "done" => starts'[l].job # 0)
    BY <2>1, <2>3, <2>5 DEF JobInv
  <2>7. CASE k < Len(starts)
    <3>1. starts'[Len(starts)] = starts[Len(starts)] /\ form' = form
      BY <1>0, <2>1, <2>5, <2>7
    <3> QED
      BY <1>0, <2>1, <2>5, <2>6, <3>1 DEF JobInv
  <2>8. CASE k = Len(starts)
    <3>1. form.jobId = 0 /\ polled = "none" /\ Len(starts) > 0
      BY <1>0, <2>1, <2>8 DEF JobInv
    <3>2. CASE starts[k].at = "done"
      <4>1. form' = [form EXCEPT !.jobId = starts[k].job, !.url = FALSE] /\ starts[k].job \in Nat
        BY <1>0, <2>1, <2>8, <3>2 DEF StartRecords
      <4>2. form' \in Forms /\ form'.jobId = starts[k].job /\ starts[k].job # 0 /\ starts[k].job <= Len(jobs)
        BY <1>0, <3>2, <4>1 DEF Forms, JobInv
      <4>3. starts'[Len(starts)].at = "over" /\ starts'[Len(starts)].job = form'.jobId
        BY <1>0, <2>3, <2>5, <2>8, <3>2, <4>2
      <4> QED
        BY <1>0, <2>1, <2>5, <2>6, <3>1, <4>2, <4>3 DEF JobInv
    <3>3. CASE starts[k].at # "done"
      <4>1. form' \in Forms /\ form'.jobId = 0
        BY <1>0, <2>1, <2>8, <3>1, <3>3 DEF Forms
      <4> QED
        BY <1>0, <2>1, <2>5, <2>6, <3>1, <4>1 DEF JobInv
    <3> QED
      BY <3>2, <3>3
  <2>9. k < Len(starts) \/ k = Len(starts)
    <3>1. PICK n \in Nat : n = Len(starts)
      BY <1>0
    <3>2. k \in 1..n
      BY <3>1
    <3>3. k < n \/ k = n
      BY <3>2, SMT
    <3> QED
      BY <3>1, <3>3
  <2> QED
    BY <2>7, <2>8, <2>9
<1>8. ASSUME NEW j \in 1..Len(jobs), J!JobWork(j) \/ J!ContextExpires(j) PROVE JobInv'
  <2>0. jobs[j] \in JobRecords /\ UNCHANGED <<form, starts, polled>>
    BY <1>a, <1>8 DEF J!JobWork, J!ContextExpires, J!scrapeAndPersist, J!runImportJob
  <2>1. CASE jobs' = [jobs EXCEPT ![j].ctx = "expired"]
    <3>1. PICK r : r = [jobs[j] EXCEPT !.ctx = "expired"]
      OBVIOUS
    <3>2. /\ r \in JobRecords /\ r.recipe = jobs[j].recipe /\ r.work = jobs[j].work /\ r.status = jobs[j].status
          /\ jobs' = [jobs EXCEPT ![j] = r]
      BY <1>0, <2>0, <2>1, <3>1 DEF JobRecords
    <3> QED
      BY <2>0, <3>2, OneJobChanges DEF JobInv
  <2>2. CASE jobs' = [jobs EXCEPT ![j].work = "mark", ![j].recipe = TRUE]
    <3>1. PICK r : r = [jobs[j] EXCEPT !.work = "mark", !.recipe = TRUE]
      OBVIOUS
    <3>2. r \in JobRecords /\ r.recipe /\ jobs' = [jobs EXCEPT ![j] = r]
      BY <1>0, <2>0, <2>2, <3>1 DEF JobRecords
    <3> QED
      BY <2>0, <3>2, OneJobChanges
  <2>3. CASE jobs' = [jobs EXCEPT ![j].work = "markFailed"]
    <3>1. PICK r : r = [jobs[j] EXCEPT !.work = "markFailed"]
      OBVIOUS
    <3>2. /\ r \in JobRecords /\ r.recipe = jobs[j].recipe /\ r.work = "markFailed" /\ r.status = jobs[j].status
          /\ jobs' = [jobs EXCEPT ![j] = r]
      BY <1>0, <2>0, <2>3, <3>1 DEF JobRecords
    <3> QED
      BY <2>0, <3>2, OneJobChanges DEF JobInv
  <2>4. CASE J!runImportJob(j)
    <3>1. PICK st : st = IF jobs[j].ctx = "expired" THEN jobs[j].status
                         ELSE IF jobs[j].work = "mark" THEN "succeeded" ELSE "failed"
      OBVIOUS
    <3>2. st \in J!Statuses /\ (st = "succeeded" => jobs[j].recipe)
      BY <2>0, <3>1 DEF JobInv, JobRecords, J!Statuses
    <3>3. PICK r : r = [jobs[j] EXCEPT !.work = "over", !.status = st]
      OBVIOUS
    <3>4. r \in JobRecords /\ r.recipe = jobs[j].recipe /\ r.work = "over" /\ r.status = st
      BY <2>0, <3>2, <3>3 DEF JobRecords
    <3>5. jobs' = [jobs EXCEPT ![j] = r]
      BY <1>0, <2>0, <2>4, <3>1, <3>3 DEF J!runImportJob, JobRecords
    <3> QED
      BY <2>0, <3>2, <3>4, <3>5, OneJobChanges
  <2> QED
    BY <1>8, <2>1, <2>2, <2>3, <2>4 DEF J!JobWork, J!ContextExpires, J!scrapeAndPersist
<1> QED
  BY <1>0, <1>1, <1>2, <1>3, <1>4, <1>5, <1>6, <1>7, <1>8 DEF J!JobNext

-----------------------------------------------------------------------------
(* The meal plan.                                                          *)

CallRecords == [op : {"upsert", "delete"}, cell : M!Cells, meal : M!Meals, at : {"sent", "done", "lost", "over"}]
CopyRecords == [from : M!Grids, cell : Nat, saved : SUBSET M!Cells,
                at : {"send", "sent", "done", "lost", "ok", "failed"}]
Slots == [ui : {"none", "pick", "edit"}, cell : Nat]
CopyStates == [copy : {"idle", "loading", "ok", "error"}, timers : Nat]

\* The loop of a copy: the cells before the current one are saved, and the current one is a
\* cell of the week until the loop has ended.
CopyOK(c) ==
    /\ c.cell \in 1..(NCells + 1) /\ c.saved = 1..(c.cell - 1)
    /\ c.at \in {"sent", "done", "lost"} => c.cell <= NCells
    /\ c.at = "ok" => c.cell = NCells + 1

\* The inductive invariant of the meal plan.
MealInv ==
    /\ table \in M!Grids /\ cached \in M!Grids /\ localGrid \in M!Grids
    /\ slot \in Slots /\ slot.cell <= NCells /\ (slot.ui # "none" => slot.cell \in M!Cells)
    /\ calls \in Seq(CallRecords) /\ copies \in Seq(CopyRecords)
    /\ others \in Nat /\ Len(calls) + Len(copies) + others <= MaxActs
    /\ \A k \in 1..Len(copies) : CopyOK(copies[k])
    /\ status \in CopyStates /\ failed \in BOOLEAN

\* It is what the run checks.
LEMMA MealImplies == MealInv => M!MealTypeOK /\ M!CopyWhole
<1> SUFFICES ASSUME MealInv PROVE M!MealTypeOK /\ M!CopyWhole
  OBVIOUS
<1>0. /\ Len(calls) \in Nat /\ Len(copies) \in Nat /\ NCells \in Nat /\ MaxActs \in Nat
      /\ DOMAIN calls = 1..Len(calls) /\ DOMAIN copies = 1..Len(copies)
  BY BoundsAssumption DEF MealInv
<1>1. \A k \in 1..Len(calls) : calls[k] \in CallRecords
  BY ElementOfSeq DEF MealInv
<1>2. \A k \in 1..Len(copies) : copies[k] \in CopyRecords /\ CopyOK(copies[k])
  BY ElementOfSeq DEF MealInv
<1>3. M!CopyWhole
  <2> SUFFICES ASSUME NEW k \in 1..Len(copies), copies[k].at = "ok" PROVE copies[k].saved = M!Cells
    BY <1>0 DEF M!CopyWhole
  <2>1. copies[k].cell = NCells + 1 /\ copies[k].saved = 1..(copies[k].cell - 1)
    BY <1>2 DEF CopyOK
  <2>2. (NCells + 1) - 1 = NCells
    BY <1>0
  <2> QED
    BY <2>1, <2>2 DEF M!Cells
<1>4. \A k \in 1..Len(copies) :
          copies[k] \in [from : M!Grids, cell : 1..NCells + 1, saved : SUBSET M!Cells,
                         at : {"send", "sent", "done", "lost", "ok", "failed"}]
  BY <1>2 DEF CopyRecords, CopyOK
<1>5. slot.cell \in 0..NCells /\ others \in 0..MaxActs
  BY <1>0 DEF MealInv, Slots
<1>6. slot \in [ui : {"none", "pick", "edit"}, cell : 0..NCells]
  BY <1>5 DEF MealInv, Slots
<1> QED
  BY <1>0, <1>1, <1>3, <1>4, <1>5, <1>6 DEF MealInv, M!MealTypeOK, CallRecords, CopyStates

\* The week is on the screen, and nobody has changed it.
LEMMA MealInitInv == M!MealInit => MealInv
<1> SUFFICES ASSUME M!MealInit PROVE MealInv
  OBVIOUS
<1>1. table \in M!Grids
  BY DEF M!MealInit, M!Grids, M!Meals, M!NoMeal, M!Recipes
<1>2. slot \in Slots /\ slot.cell = 0 /\ slot.ui = "none" /\ status \in CopyStates
  BY DEF M!MealInit, M!Closed, Slots, CopyStates
<1>3. NCells \in Nat /\ MaxActs \in Nat
  BY BoundsAssumption
<1>4. /\ calls \in Seq(CallRecords) /\ copies \in Seq(CopyRecords)
      /\ Len(calls) = 0 /\ Len(copies) = 0 /\ others = 0
  BY DEF M!MealInit
<1>5. Len(calls) + Len(copies) + others <= MaxActs /\ slot.cell <= NCells
  BY <1>2, <1>3, <1>4
<1>6. cached \in M!Grids /\ localGrid \in M!Grids /\ failed \in BOOLEAN /\ others \in Nat
  BY <1>1 DEF M!MealInit
<1> QED
  BY <1>1, <1>2, <1>4, <1>5, <1>6 DEF MealInv

\* A cell of a grid changed.
LEMMA GridUpdate ==
    ASSUME NEW g \in M!Grids, NEW c, NEW m \in M!Meals
    PROVE  [g EXCEPT ![c] = m] \in M!Grids
BY DEF M!Grids

\* A call more, by the button of a dialog on cell c.
LEMMA MutateKeeps ==
    ASSUME MealInv, NEW op \in {"upsert", "delete"}, NEW c \in M!Cells, NEW m \in M!Meals, M!mutate(op, c, m),
           UNCHANGED <<copies, others>>
    PROVE  /\ calls' \in Seq(CallRecords) /\ failed' \in BOOLEAN
           /\ Len(calls') + Len(copies') + others' <= MaxActs
<1> DEFINE r == [op |-> op, cell |-> c, meal |-> m, at |-> "sent"]
<1>1. calls' = Append(calls, r) /\ failed' = FALSE /\ Len(calls) + Len(copies) + others < MaxActs
  BY DEF M!mutate, M!MayAct
<1>2. r \in CallRecords
  BY DEF CallRecords
<1> HIDE DEF r
<1>3. calls \in Seq(CallRecords) /\ Len(calls) \in Nat /\ Len(copies) \in Nat /\ others \in Nat /\ MaxActs \in Nat
  BY BoundsAssumption DEF MealInv
<1>4. calls' \in Seq(CallRecords) /\ Len(calls') = Len(calls) + 1
  BY <1>1, <1>2, <1>3
<1>5. Len(calls') + Len(copies') + others' <= MaxActs
  <2>1. Len(copies') = Len(copies) /\ others' = others
    OBVIOUS
  <2> QED
    BY <1>1, <1>3, <1>4, <2>1
<1> QED
  BY <1>1, <1>4, <1>5

\* The dialogs and the grid keep it.
LEMMA GridKeeps == ASSUME MealInv, M!Grid PROVE MealInv'
<1>0. /\ table \in M!Grids /\ cached \in M!Grids /\ localGrid \in M!Grids
      /\ slot \in Slots /\ slot.cell \in Nat /\ NCells \in Nat /\ 0 <= NCells
      /\ M!NoMeal \in M!Meals
  BY BoundsAssumption DEF MealInv, Slots, M!Meals
<1>c. M!Closed \in Slots /\ M!Closed.ui = "none" /\ M!Closed.cell = 0
  BY DEF M!Closed, Slots
<1>1. CASE M!openPicker
  <2>1. PICK c \in M!Cells : slot' = [ui |-> IF localGrid[c] # M!NoMeal THEN "edit" ELSE "pick", cell |-> c]
    BY <1>1 DEF M!openPicker
  <2>2. c \in Nat /\ c <= NCells
    BY <1>0 DEF M!Cells
  <2>3. slot' \in Slots /\ slot'.cell = c
    BY <2>1, <2>2 DEF Slots
  <2> QED
    BY <1>1, <2>2, <2>3 DEF M!openPicker, MealInv
<1>2. CASE M!closeSlot
  BY <1>0, <1>2, <1>c DEF M!closeSlot, MealInv
<1>3. CASE M!pickRecipe
  <2>1. slot.cell \in M!Cells
    BY <1>3 DEF M!pickRecipe, M!PickerShown, MealInv
  <2>2. PICK r \in M!Recipes : localGrid' = [localGrid EXCEPT ![slot.cell] = r] /\ M!mutate("upsert", slot.cell, r)
    BY <1>3 DEF M!pickRecipe
  <2>3. localGrid' \in M!Grids /\ r \in M!Meals
    BY <1>0, <2>2, GridUpdate DEF M!Meals
  <2>4. UNCHANGED <<table, cached, copies, status, others>> /\ slot' = M!Closed
    BY <1>3 DEF M!pickRecipe
  <2> QED
    BY <1>0, <1>c, <2>1, <2>2, <2>3, <2>4, MutateKeeps DEF MealInv
<1>4. CASE M!clearSlot
  <2>1. PICK c \in M!Cells : localGrid' = [localGrid EXCEPT ![c] = M!NoMeal]
    BY <1>4 DEF M!clearSlot
  <2>2. localGrid' \in M!Grids
    BY <1>0, <2>1, GridUpdate
  <2> QED
    BY <1>4, <2>2 DEF M!clearSlot, MealInv
<1>5. CASE M!handleEditSave
  <2>1. slot.cell \in M!Cells
    BY <1>5 DEF M!handleEditSave, M!PopoverShown, MealInv
  <2>2. localGrid[slot.cell] \in M!Meals
    BY <1>0, <2>1 DEF M!Grids
  <2>3. M!mutate("upsert", slot.cell, localGrid[slot.cell]) /\ UNCHANGED <<table, cached, localGrid, copies, status, others>> /\ slot' = M!Closed
    BY <1>5 DEF M!handleEditSave
  <2> QED
    BY <1>0, <1>c, <2>1, <2>2, <2>3, MutateKeeps DEF MealInv
<1>6. CASE M!handleEditDelete
  <2>1. slot.cell \in M!Cells
    BY <1>6 DEF M!handleEditDelete, M!PopoverShown, MealInv
  <2>2. UNCHANGED <<table, cached, copies, status, others>> /\ slot' = M!Closed
    BY <1>6 DEF M!handleEditDelete
  <2>3. localGrid' \in M!Grids
    BY <1>0, <1>6, GridUpdate DEF M!handleEditDelete
  <2>4. CASE M!mutate("delete", slot.cell, M!NoMeal)
    BY <1>0, <1>c, <2>1, <2>2, <2>3, <2>4, MutateKeeps DEF MealInv
  <2>5. CASE UNCHANGED <<calls, failed>>
    BY <1>0, <1>c, <2>2, <2>3, <2>5 DEF MealInv
  <2> QED
    BY <1>6, <2>4, <2>5 DEF M!handleEditDelete
<1> QED
  BY <1>1, <1>2, <1>3, <1>4, <1>5, <1>6 DEF M!Grid

\* One copy changed, and the status with it.
LEMMA OneCopyChanges ==
    ASSUME MealInv, NEW k \in 1..Len(copies), NEW r \in CopyRecords, CopyOK(r), copies' = [copies EXCEPT ![k] = r],
           table' \in M!Grids, status' \in CopyStates, UNCHANGED <<cached, localGrid, slot, calls, failed, others>>
    PROVE  MealInv'
<1>1. copies \in Seq(CopyRecords) /\ Len(copies) \in Nat
  BY DEF MealInv
<1>2. copies' \in Seq(CopyRecords) /\ Len(copies') = Len(copies)
  BY <1>1
<1>3. \A i \in 1..Len(copies) : copies'[i] = IF i = k THEN r ELSE copies[i]
  BY <1>1
<1> QED
  BY <1>2, <1>3 DEF MealInv

\* A copy that only gets on to `at` changes nothing else of its loop.
LEMMA CopyAt ==
    ASSUME MealInv, NEW k \in 1..Len(copies), NEW at \in {"send", "sent", "done", "lost", "ok", "failed"}, M!Copy(k, at),
           at \in {"sent", "done", "lost"} => copies[k].cell <= NCells, at = "ok" => copies[k].cell = NCells + 1,
           table' \in M!Grids, status' \in CopyStates, UNCHANGED <<cached, localGrid, slot, calls, failed, others>>
    PROVE  MealInv'
<1>1. copies[k] \in CopyRecords /\ CopyOK(copies[k])
  BY ElementOfSeq DEF MealInv
<1>2. PICK r : r = [copies[k] EXCEPT !.at = at]
  OBVIOUS
<1>3. r \in CopyRecords /\ r.at = at /\ r.cell = copies[k].cell /\ r.saved = copies[k].saved
  BY <1>1, <1>2 DEF CopyRecords
<1>4. CopyOK(r)
  BY <1>1, <1>3 DEF CopyOK
<1>5. copies' = [copies EXCEPT ![k] = r]
  BY <1>1, <1>2 DEF M!Copy, MealInv
<1> QED
  BY <1>3, <1>4, <1>5, OneCopyChanges

\* The copy of last week keeps it.
LEMMA CopyingKeeps == ASSUME MealInv, M!Copying PROVE MealInv'
<1>0. /\ copies \in Seq(CopyRecords) /\ Len(copies) \in Nat /\ DOMAIN copies = 1..Len(copies)
      /\ Len(calls) \in Nat /\ others \in Nat /\ MaxActs \in Nat /\ NCells \in Nat /\ NCells > 0
      /\ status \in CopyStates /\ status.timers \in Nat /\ table \in M!Grids
  BY BoundsAssumption DEF MealInv, CopyStates
<1>t. ASSUME NEW c \in {"idle", "loading", "ok", "error"}, NEW t \in Nat
      PROVE  [status EXCEPT !.copy = c, !.timers = t] \in CopyStates
  BY <1>0 DEF CopyStates
<1>1. CASE M!handleCopyLastWeek
  <2> DEFINE r == [from |-> M!lastWeekPlan, cell |-> 1, saved |-> {}, at |-> "send"]
  <2>1. /\ Len(calls) + Len(copies) + others < MaxActs /\ copies' = Append(copies, r)
        /\ status' = [status EXCEPT !.copy = "loading"]
        /\ UNCHANGED <<table, cached, localGrid, slot, calls, failed, others>>
    BY <1>1 DEF M!handleCopyLastWeek, M!MayAct
  <2>2. M!lastWeekPlan \in M!Grids
    BY DEF M!lastWeekPlan, M!Grids, M!Meals, M!Recipes
  <2>3. r \in CopyRecords
    BY <2>2 DEF CopyRecords
  <2>4. CopyOK(r)
    BY <1>0 DEF CopyOK
  <2> HIDE DEF r
  <2>5. /\ copies' \in Seq(CopyRecords) /\ Len(copies') = Len(copies) + 1
        /\ \A i \in 1..Len(copies') : copies'[i] = IF i = Len(copies) + 1 THEN r ELSE copies[i]
    BY <1>0, <2>1, <2>3
  <2>6. \A i \in 1..Len(copies') : CopyOK(copies'[i])
    BY <1>0, <2>4, <2>5 DEF MealInv
  <2>7. status' \in CopyStates /\ Len(calls') + Len(copies') + others' <= MaxActs
    BY <1>0, <2>1, <2>5 DEF CopyStates
  <2> QED
    BY <2>1, <2>5, <2>6, <2>7 DEF MealInv
<1>2. CASE M!CopyStatusResets
  <2>1. status.timers > 0 /\ status' = [status EXCEPT !.copy = "idle", !.timers = status.timers - 1]
    BY <1>0, <1>2 DEF M!CopyStatusResets, CopyStates
  <2>2. status' \in CopyStates
    <3>1. status.timers - 1 \in Nat
      BY <1>0, <2>1
    <3> QED
      BY <1>t, <2>1, <3>1
  <2> QED
    BY <1>2, <2>2 DEF M!CopyStatusResets, MealInv
<1>3. ASSUME NEW k \in 1..Len(copies), M!CopyNext(k) \/ M!CopyAnswered(k) \/ M!ServeCopy(k) PROVE MealInv'
  <2>0. /\ copies[k] \in CopyRecords /\ CopyOK(copies[k]) /\ copies[k].cell \in 1..(NCells + 1)
        /\ UNCHANGED <<cached, localGrid, slot, calls, failed, others>>
    BY <1>3, ElementOfSeq DEF MealInv, CopyOK, M!CopyNext, M!CopyAnswered, M!ServeCopy
  <2>1. CASE M!CopyNext(k)
    <3>1. CASE copies[k].cell <= NCells
      <4>1. M!Copy(k, "sent") /\ UNCHANGED <<status, table>>
        BY <2>1, <3>1 DEF M!CopyNext
      <4> QED
        BY <1>0, <2>0, <3>1, <4>1, CopyAt
    <3>2. CASE ~(copies[k].cell <= NCells)
      <4>1. M!Copy(k, "ok") /\ table' = table /\ status' = [status EXCEPT !.copy = "ok", !.timers = status.timers + 1]
        BY <1>0, <2>1, <3>2 DEF M!CopyNext, CopyStates
      <4>2. copies[k].cell = NCells + 1
        BY <1>0, <2>0, <3>2
      <4>3. status' \in CopyStates
        <5>1. status.timers + 1 \in Nat
          BY <1>0
        <5> QED
          BY <1>t, <4>1, <5>1
      <4> QED
        BY <1>0, <2>0, <4>1, <4>2, <4>3, CopyAt
    <3> QED
      BY <3>1, <3>2
  <2>2. CASE M!CopyAnswered(k)
    <3>1. CASE copies[k].at = "done"
      <4>1. PICK c \in 1..NCells : c = copies[k].cell
        BY <1>0, <2>0, <3>1 DEF CopyOK
      <4>2. PICK r : r = [copies[k] EXCEPT !.at = "send", !.cell = c + 1, !.saved = copies[k].saved \cup {c}]
        OBVIOUS
      <4>3. copies' = [copies EXCEPT ![k] = r] /\ UNCHANGED <<status, table>>
        BY <1>0, <2>0, <2>2, <3>1, <4>1, <4>2 DEF M!CopyAnswered, CopyRecords
      <4>4. copies[k].saved = 1..(c - 1) /\ 1..(c - 1) \cup {c} = 1..c /\ (c + 1) - 1 = c /\ c + 1 \in Nat /\ c \in M!Cells
        BY <1>0, <2>0, <4>1 DEF CopyOK, M!Cells
      <4>5. r \in CopyRecords /\ r.at = "send" /\ r.cell = c + 1 /\ r.saved = copies[k].saved \cup {c}
        BY <2>0, <4>2, <4>4 DEF CopyRecords
      <4>6. CopyOK(r)
        BY <1>0, <4>1, <4>4, <4>5 DEF CopyOK
      <4> QED
        BY <1>0, <2>0, <4>3, <4>5, <4>6, OneCopyChanges
    <3>2. CASE copies[k].at # "done"
      <4>1. M!Copy(k, "failed") /\ table' = table /\ status' = [status EXCEPT !.copy = "error", !.timers = status.timers + 1]
        BY <1>0, <2>2, <3>2 DEF M!CopyAnswered, CopyStates
      <4>2. status' \in CopyStates
        <5>1. status.timers + 1 \in Nat
          BY <1>0
        <5> QED
          BY <1>t, <4>1, <5>1
      <4> QED
        BY <1>0, <2>0, <4>1, <4>2, CopyAt
    <3> QED
      BY <3>1, <3>2
  <2>3. CASE M!ServeCopy(k)
    <3>1. copies[k].at = "sent" /\ status' = status
      BY <2>3 DEF M!ServeCopy
    <3>2. PICK applied, heard \in BOOLEAN :
             /\ table' = IF applied THEN [table EXCEPT ![copies[k].cell] = copies[k].from[copies[k].cell]] ELSE table
             /\ M!Copy(k, IF heard THEN "done" ELSE "lost")
      BY <2>3 DEF M!ServeCopy
    <3>3. copies[k].cell <= NCells /\ copies[k].cell \in M!Cells
      BY <1>0, <2>0, <3>1 DEF CopyOK, M!Cells
    <3>4. copies[k].from[copies[k].cell] \in M!Meals
      BY <2>0, <3>3 DEF CopyRecords, M!Grids
    <3>5. table' \in M!Grids
      BY <1>0, <3>2, <3>4, GridUpdate
    <3>6. CASE heard
      BY <1>0, <2>0, <3>1, <3>2, <3>3, <3>5, <3>6, CopyAt
    <3>7. CASE ~heard
      BY <1>0, <2>0, <3>1, <3>2, <3>3, <3>5, <3>7, CopyAt
    <3> QED
      BY <3>6, <3>7
  <2> QED
    BY <1>3, <2>1, <2>2, <2>3
<1> QED
  BY <1>0, <1>1, <1>2, <1>3 DEF M!Copying

\* One call got on.
LEMMA CallAt ==
    ASSUME NEW k \in 1..Len(calls), calls \in Seq(CallRecords), NEW at \in {"sent", "done", "lost", "over"},
           calls' = [calls EXCEPT ![k].at = at]
    PROVE  calls' \in Seq(CallRecords) /\ Len(calls') = Len(calls)
<1>1. calls[k] \in CallRecords
  BY ElementOfSeq
<1>2. [calls[k] EXCEPT !.at = at] \in CallRecords
  BY <1>1 DEF CallRecords
<1> QED
  BY <1>2

\* Every step of the meal plan keeps it.
LEMMA MealStep == MealInv /\ [M!MealNext]_mealVars => MealInv'
<1> SUFFICES ASSUME MealInv, [M!MealNext]_mealVars PROVE MealInv'
  OBVIOUS
<1>0. /\ calls \in Seq(CallRecords) /\ Len(copies) \in Nat /\ DOMAIN calls = 1..Len(calls)
      /\ Len(calls) \in Nat /\ others \in Nat /\ MaxActs \in Nat /\ table \in M!Grids
  BY BoundsAssumption DEF MealInv
<1>1. CASE UNCHANGED mealVars
  BY <1>1 DEF mealVars, MealInv
<1>2. CASE M!Grid
  BY <1>2, GridKeeps
<1>3. CASE M!Copying
  BY <1>3, CopyingKeeps
<1>4. ASSUME NEW k \in 1..Len(calls), M!Serve(k) PROVE MealInv'
  <2>1. PICK applied, heard \in BOOLEAN :
           /\ table' = IF applied THEN [table EXCEPT ![calls[k].cell] = calls[k].meal] ELSE table
           /\ calls' = [calls EXCEPT ![k].at = IF heard THEN "done" ELSE "lost"]
    BY <1>4 DEF M!Serve
  <2>2. calls[k].meal \in M!Meals
    <3>1. calls[k] \in CallRecords
      BY <1>0, ElementOfSeq
    <3> QED
      BY <3>1 DEF CallRecords
  <2>3. table' \in M!Grids
    BY <1>0, <2>1, <2>2, GridUpdate
  <2>4. calls' \in Seq(CallRecords) /\ Len(calls') = Len(calls)
    BY <1>0, <2>1, CallAt
  <2> QED
    BY <1>4, <2>3, <2>4 DEF M!Serve, MealInv
<1>5. ASSUME NEW k \in 1..Len(calls), M!Answer(k) PROVE MealInv'
  <2>1. calls' \in Seq(CallRecords) /\ Len(calls') = Len(calls)
    BY <1>0, <1>5, CallAt DEF M!Answer
  <2>2. failed' \in BOOLEAN
    BY <1>5 DEF M!Answer
  <2> QED
    BY <1>5, <2>1, <2>2 DEF M!Answer, MealInv
<1>6. CASE M!entriesToMealPlan
  BY <1>6 DEF M!entriesToMealPlan, MealInv
<1>7. CASE M!OtherDevice
  <2>1. PICK c \in M!Cells, r \in M!Meals : table' = [table EXCEPT ![c] = r]
    BY <1>7 DEF M!OtherDevice
  <2>2. table' \in M!Grids
    BY <1>0, <2>1, GridUpdate
  <2>3. others' \in Nat /\ Len(calls) + Len(copies) + others' <= MaxActs
    BY <1>0, <1>7 DEF M!OtherDevice, M!MayAct
  <2> QED
    BY <1>7, <2>2, <2>3 DEF M!OtherDevice, MealInv
<1> QED
  BY <1>0, <1>1, <1>2, <1>3, <1>4, <1>5, <1>6, <1>7 DEF M!MealNext, M!Requests

-----------------------------------------------------------------------------
(* Filing a recipe under collections.                                      *)

\* A toggle is about a collection, and a change elsewhere is over at once.
ReqRecords ==
    {r \in [op : {"assign", "remove", "delete", "create", "other"}, col : {0} \cup R!Cols,
            at : {"sent", "done", "lost", "over"}, live : BOOLEAN] :
        (r.op \in R!Ops => r.col \in R!Cols) /\ (r.op = "other" => r.at = "over")}
Shelves == [cols : SUBSET R!Cols, filed : SUBSET R!Cols]
Uis == [selected : {0} \cup R!Cols, menu : BOOLEAN, create : {"none", "menu", "sidebar"}, failed : BOOLEAN]

ShelfTypes ==
    /\ server \in Shelves /\ server.filed \subseteq server.cols
    /\ seen \subseteq R!Cols /\ assigned \subseteq R!Cols /\ missed \subseteq R!Cols
    /\ ui \in Uis /\ (ui.create = "menu" => ui.menu)
    /\ busy \in {0} \cup R!Cols
    /\ reqs \in Seq(ReqRecords) /\ Len(reqs) <= MaxReqs

\* A toggle of collection c that is under way.
Flying(k, c) == reqs[k].op \in R!Ops /\ reqs[k].col = c /\ reqs[k].at # "over"

\* For a collection that missed nothing: one toggle at a time is under way, an assignment
\* that is done has filed the recipe, and a tick without it awaits the answer of a removal.
FilingOK ==
    \A c \in R!Cols \ missed :
        /\ \A j, k \in 1..Len(reqs) : Flying(j, c) /\ Flying(k, c) => j = k
        /\ \A k \in 1..Len(reqs) : Flying(k, c) /\ reqs[k].op = "assign" /\ reqs[k].at = "done" => c \in server.filed
        /\ c \in assigned /\ c \notin server.filed
              => \E k \in 1..Len(reqs) : Flying(k, c) /\ reqs[k].op = "remove" /\ reqs[k].at = "done"

\* The inductive invariant of the shelf.
ShelfInv == ShelfTypes /\ FilingOK

\* It is what the run checks.
LEMMA ShelfImplies == ShelfInv => R!ShelfTypeOK /\ R!TickedIsFiled
<1> SUFFICES ASSUME ShelfInv PROVE R!ShelfTypeOK /\ R!TickedIsFiled
  OBVIOUS
<1>0. reqs \in Seq(ReqRecords) /\ Len(reqs) \in Nat /\ DOMAIN reqs = 1..Len(reqs)
  BY DEF ShelfInv, ShelfTypes
<1>1. \A k \in 1..Len(reqs) : reqs[k] \in ReqRecords
  BY <1>0, ElementOfSeq
<1>2. R!ShelfTypeOK
  BY <1>0, <1>1 DEF ShelfInv, ShelfTypes, R!ShelfTypeOK, ReqRecords, Shelves, Uis, R!None
<1>3. R!TickedIsFiled
  BY <1>0 DEF ShelfInv, ShelfTypes, FilingOK, Flying, R!TickedIsFiled, R!InFlight
<1> QED
  BY <1>2, <1>3

\* Nothing is ticked yet.
LEMMA ShelfInitInv == R!ShelfInit => ShelfInv
<1> SUFFICES ASSUME R!ShelfInit PROVE ShelfInv
  OBVIOUS
<1>1. PICK f \in {{}, {1}} : server = [cols |-> {1, 2}, filed |-> f]
  BY DEF R!ShelfInit
<1>2. server \in Shelves /\ server.filed \subseteq server.cols /\ server.cols \subseteq R!Cols
  BY <1>1 DEF Shelves, R!Cols
<1>3. reqs \in Seq(ReqRecords) /\ Len(reqs) = 0 /\ Len(reqs) <= MaxReqs
  BY BoundsAssumption DEF R!ShelfInit
<1>4. ui \in Uis /\ ui.create = "none"
  BY DEF R!ShelfInit, Uis, R!None
<1>5. ShelfTypes
  BY <1>2, <1>3, <1>4 DEF R!ShelfInit, ShelfTypes, R!None
<1>6. FilingOK
  BY <1>3 DEF R!ShelfInit, FilingOK
<1> QED
  BY <1>5, <1>6 DEF ShelfInv

\* Filing depends on the toggles under way, the ticks and what the server has.
LEMMA SameFiling ==
    ASSUME ShelfInv, UNCHANGED <<server, assigned, missed>>, Len(reqs') = Len(reqs),
           \A k \in 1..Len(reqs) : reqs'[k].op = reqs[k].op /\ reqs'[k].col = reqs[k].col /\ reqs'[k].at = reqs[k].at
    PROVE  FilingOK'
BY DEF ShelfInv, FilingOK, Flying

\* A request that is no toggle gets on.
LEMMA NoToggle ==
    ASSUME ShelfInv, UNCHANGED <<server, assigned, missed>>, NEW i \in 1..Len(reqs), reqs[i].op \notin R!Ops,
           Len(reqs') = Len(reqs), reqs'[i].op = reqs[i].op,
           \A k \in 1..Len(reqs) : k # i => reqs'[k] = reqs[k]
    PROVE  FilingOK'
<1>1. \A k \in 1..Len(reqs), c \in R!Cols : /\ Flying(k, c)' <=> Flying(k, c)
                                            /\ Flying(k, c) => reqs'[k] = reqs[k]
  BY DEF Flying
<1>2. ASSUME NEW c \in R!Cols, c \notin missed
      PROVE  /\ \A j, k \in 1..Len(reqs') : Flying(j, c)' /\ Flying(k, c)' => j = k
             /\ \A k \in 1..Len(reqs') : Flying(k, c)' /\ reqs'[k].op = "assign" /\ reqs'[k].at = "done" => c \in server'.filed
             /\ c \in assigned' /\ c \notin server'.filed
                   => \E k \in 1..Len(reqs') : Flying(k, c)' /\ reqs'[k].op = "remove" /\ reqs'[k].at = "done"
  BY <1>1, <1>2 DEF ShelfInv, FilingOK
<1> QED
  BY <1>2 DEF FilingOK

\* A request more at the end.
LEMMA AskTypes ==
    ASSUME ShelfInv, NEW r \in ReqRecords, reqs' = Append(reqs, r), R!MayAsk
    PROVE  /\ reqs' \in Seq(ReqRecords) /\ Len(reqs') <= MaxReqs
           /\ Len(reqs) \in Nat /\ Len(reqs') = Len(reqs) + 1
           /\ reqs'[Len(reqs) + 1] = r /\ \A k \in 1..Len(reqs) : reqs'[k] = reqs[k]
<1>1. reqs \in Seq(ReqRecords) /\ Len(reqs) \in Nat /\ MaxReqs \in Nat /\ Len(reqs) < MaxReqs
  BY BoundsAssumption DEF ShelfInv, ShelfTypes, R!MayAsk
<1>2. reqs' \in Seq(ReqRecords) /\ Len(reqs') = Len(reqs) + 1
  BY <1>1
<1>3. Len(reqs') <= MaxReqs
  BY <1>1, <1>2
<1>4. reqs'[Len(reqs) + 1] = r /\ \A k \in 1..Len(reqs) : reqs'[k] = reqs[k]
  BY <1>1
<1> QED
  BY <1>1, <1>2, <1>3, <1>4

\* A request that is no toggle, asked for.
LEMMA AskKeeps ==
    ASSUME ShelfInv, NEW r \in ReqRecords, reqs' = Append(reqs, r), R!MayAsk, r.op \notin R!Ops \/ r.at = "over",
           UNCHANGED <<server, assigned, missed>>
    PROVE  FilingOK'
<1>0. PICK n \in Nat : n = Len(reqs)
  BY AskTypes
<1>1. Len(reqs') = n + 1 /\ reqs'[n + 1] = r /\ \A k \in 1..n : reqs'[k] = reqs[k]
  BY <1>0, AskTypes
<1>2. 1..Len(reqs') = 1..n \cup {n + 1}
  BY <1>0, <1>1
<1>3. ASSUME NEW c PROVE ~Flying(n + 1, c)' /\ \A k \in 1..n : Flying(k, c)' <=> Flying(k, c)
  BY <1>1 DEF Flying
<1>4. ASSUME NEW c \in R!Cols, c \notin missed
      PROVE  /\ \A j, k \in 1..Len(reqs') : Flying(j, c)' /\ Flying(k, c)' => j = k
             /\ \A k \in 1..Len(reqs') : Flying(k, c)' /\ reqs'[k].op = "assign" /\ reqs'[k].at = "done" => c \in server'.filed
             /\ c \in assigned' /\ c \notin server'.filed
                   => \E k \in 1..Len(reqs') : Flying(k, c)' /\ reqs'[k].op = "remove" /\ reqs'[k].at = "done"
  <2>1. \A k \in 1..Len(reqs') : Flying(k, c)' => k \in 1..n /\ Flying(k, c) /\ reqs'[k] = reqs[k]
    BY <1>1, <1>2, <1>3
  <2>2. \A k \in 1..n : k \in 1..Len(reqs') /\ (Flying(k, c) => Flying(k, c)') /\ reqs'[k] = reqs[k]
    BY <1>1, <1>2, <1>3
  <2> QED
    BY <1>0, <1>4, <2>1, <2>2 DEF ShelfInv, FilingOK
<1> QED
  BY <1>4 DEF FilingOK

\* A component that goes away takes its callbacks with it.
LEMMA UnmountTypes ==
    ASSUME ShelfInv, NEW ops, reqs' = R!Unmount(ops)
    PROVE  /\ reqs' \in Seq(ReqRecords) /\ Len(reqs') = Len(reqs)
           /\ \A k \in 1..Len(reqs) : reqs'[k].op = reqs[k].op /\ reqs'[k].col = reqs[k].col /\ reqs'[k].at = reqs[k].at
<1>1. reqs \in Seq(ReqRecords) /\ Len(reqs) \in Nat /\ DOMAIN reqs = 1..Len(reqs)
  BY DEF ShelfInv, ShelfTypes
<1>2. \A k \in 1..Len(reqs) : reqs[k] \in ReqRecords
  BY <1>1, ElementOfSeq
<1>3. reqs' = [k \in 1..Len(reqs) |-> IF reqs[k].op \in ops THEN [reqs[k] EXCEPT !.live = FALSE] ELSE reqs[k]]
  BY <1>1 DEF R!Unmount
<1>4. \A k \in 1..Len(reqs) : /\ reqs'[k] \in ReqRecords
                              /\ reqs'[k].op = reqs[k].op /\ reqs'[k].col = reqs[k].col /\ reqs'[k].at = reqs[k].at
  <2> TAKE k \in 1..Len(reqs)
  <2>1. reqs[k] \in ReqRecords /\ reqs'[k] = IF reqs[k].op \in ops THEN [reqs[k] EXCEPT !.live = FALSE] ELSE reqs[k]
    BY <1>2, <1>3
  <2>2. CASE reqs[k].op \in ops
    <3>1. PICK q, r : q = reqs[k] /\ r = reqs'[k]
      OBVIOUS
    <3>2. q \in ReqRecords /\ r = [q EXCEPT !.live = FALSE]
      BY <2>1, <2>2, <3>1
    <3>3. r \in ReqRecords /\ r.op = q.op /\ r.col = q.col /\ r.at = q.at
      BY <3>2 DEF ReqRecords
    <3> QED
      BY <3>1, <3>3
  <2>3. CASE reqs[k].op \notin ops
    BY <2>1, <2>3
  <2> QED
    BY <2>2, <2>3
<1>5. reqs' \in [1..Len(reqs) -> ReqRecords]
  BY <1>3, <1>4
<1>6. reqs' \in Seq(ReqRecords) /\ Len(reqs') = Len(reqs)
  BY <1>1, <1>5
<1> QED
  BY <1>4, <1>6

\* The dialogs keep it.
LEMMA DialogsKeep == ASSUME ShelfInv, R!Dialogs PROVE ShelfInv'
<1>0. ShelfTypes /\ FilingOK /\ Len(reqs) \in Nat /\ reqs \in Seq(ReqRecords) /\ DOMAIN reqs = 1..Len(reqs)
  BY DEF ShelfInv, ShelfTypes
<1>s. ASSUME UNCHANGED <<server, assigned, missed, reqs>> PROVE FilingOK'
  BY <1>s, SameFiling
<1>1. CASE R!onSelect
  <2>1. PICK c \in {0} \cup seen : ui' = [ui EXCEPT !.selected = c]
    BY <1>1 DEF R!onSelect, R!None
  <2>2. ui' \in Uis /\ ui'.create = ui.create /\ ui'.menu = ui.menu
    BY <1>0, <2>1 DEF ShelfTypes, Uis
  <2> QED
    BY <1>0, <1>1, <1>s, <2>2 DEF R!onSelect, ShelfInv, ShelfTypes
<1>2. CASE R!openMenu
  <2>1. ui' = [ui EXCEPT !.menu = TRUE] /\ assigned' = {} /\ busy' = 0 /\ UNCHANGED <<server, seen, reqs>>
        /\ missed' = {c \in R!Cols : R!InFlight(c)}
    BY <1>2 DEF R!openMenu, R!None
  <2>2. ui' \in Uis /\ ui'.menu
    BY <1>0, <2>1 DEF ShelfTypes, Uis
  <2>3. ASSUME NEW c \in R!Cols, c \notin missed' PROVE \A k \in 1..Len(reqs') : ~Flying(k, c)'
    BY <1>0, <2>1, <2>3 DEF Flying, R!InFlight
  <2>4. FilingOK'
    BY <2>1, <2>3 DEF FilingOK
  <2>5. ShelfTypes'
    BY <1>0, <2>1, <2>2 DEF ShelfTypes
  <2> QED
    BY <2>4, <2>5 DEF ShelfInv
<1>3. CASE R!closeMenu
  <2>1. /\ ui' = [ui EXCEPT !.menu = FALSE] /\ assigned' = {} /\ busy' = 0 /\ UNCHANGED <<server, seen, missed>>
        /\ reqs' = R!Unmount(R!Ops) /\ ui.create = "none"
    BY <1>3 DEF R!closeMenu, R!None
  <2>2. ui' \in Uis /\ ui'.create = "none"
    BY <1>0, <2>1 DEF ShelfTypes, Uis
  <2>3. /\ reqs' \in Seq(ReqRecords) /\ Len(reqs') = Len(reqs)
        /\ \A k \in 1..Len(reqs) : reqs'[k].op = reqs[k].op /\ reqs'[k].col = reqs[k].col /\ reqs'[k].at = reqs[k].at
    BY <2>1, UnmountTypes
  <2>4. FilingOK'
    BY <1>0, <2>1, <2>3 DEF FilingOK, Flying
  <2>5. ShelfTypes'
    BY <1>0, <2>1, <2>2, <2>3 DEF ShelfTypes
  <2> QED
    BY <2>4, <2>5 DEF ShelfInv
<1>4. CASE R!toggle
  <2>1. PICK c \in R!Cols : /\ R!Ask(IF c \in assigned THEN "remove" ELSE "assign", c) /\ busy' = c
                            /\ missed' = IF R!InFlight(c) THEN missed \cup {c} ELSE missed
    BY <1>4 DEF R!toggle
  <2>2. R!MayAsk /\ UNCHANGED <<server, seen, ui, assigned>>
    BY <1>4 DEF R!toggle
  <2>3. PICK r : r = [op |-> IF c \in assigned THEN "remove" ELSE "assign", col |-> c, at |-> "sent", live |-> TRUE]
    OBVIOUS
  <2>4. r \in ReqRecords /\ r.at = "sent" /\ r.col = c
    BY <2>3 DEF ReqRecords
  <2>5. reqs' = Append(reqs, r)
    BY <2>1, <2>3 DEF R!Ask
  <2>n. PICK n \in Nat : n = Len(reqs)
    BY <1>0
  <2>6. /\ reqs' \in Seq(ReqRecords) /\ Len(reqs') <= MaxReqs /\ Len(reqs') = n + 1
        /\ reqs'[n + 1] = r /\ \A k \in 1..n : reqs'[k] = reqs[k]
    BY <2>2, <2>4, <2>5, <2>n, AskTypes
  <2>7. ShelfTypes'
    BY <1>0, <2>1, <2>2, <2>6 DEF ShelfTypes
  <2>8. 1..Len(reqs') = 1..n \cup {n + 1}
    BY <2>n, <2>6
  <2>9. ASSUME NEW d \in R!Cols, d \notin missed'
        PROVE  /\ \A j, k \in 1..Len(reqs') : Flying(j, d)' /\ Flying(k, d)' => j = k
               /\ \A k \in 1..Len(reqs') : Flying(k, d)' /\ reqs'[k].op = "assign" /\ reqs'[k].at = "done" => d \in server'.filed
               /\ d \in assigned' /\ d \notin server'.filed
                     => \E k \in 1..Len(reqs') : Flying(k, d)' /\ reqs'[k].op = "remove" /\ reqs'[k].at = "done"
    <3>1. d \notin missed /\ (d = c => ~R!InFlight(c))
      BY <2>1, <2>9
    <3>2. \A k \in 1..n : /\ k \in 1..Len(reqs') /\ (Flying(k, d)' <=> Flying(k, d)) /\ reqs'[k] = reqs[k]
      BY <2>6, <2>8 DEF Flying
    <3>3. d = c => \A k \in 1..n : ~Flying(k, d)
      BY <1>0, <2>n, <3>1 DEF Flying, R!InFlight
    <3>4. d # c => ~Flying(n + 1, d)'
      BY <2>4, <2>6 DEF Flying
    <3>5. \A j, k \in 1..Len(reqs') : Flying(j, d)' /\ Flying(k, d)' => j = k
      BY <1>0, <2>n, <2>8, <3>1, <3>2, <3>3, <3>4 DEF FilingOK
    <3>6. \A k \in 1..Len(reqs') : Flying(k, d)' /\ reqs'[k].op = "assign" /\ reqs'[k].at = "done" => d \in server'.filed
      BY <1>0, <2>n, <2>2, <2>4, <2>6, <2>8, <3>1, <3>2 DEF FilingOK
    <3>7. d \in assigned' /\ d \notin server'.filed
                     => \E k \in 1..Len(reqs') : Flying(k, d)' /\ reqs'[k].op = "remove" /\ reqs'[k].at = "done"
      BY <1>0, <2>n, <2>2, <3>1, <3>2 DEF FilingOK
    <3> QED
      BY <3>5, <3>6, <3>7
  <2>10. FilingOK'
    BY <2>9 DEF FilingOK
  <2> QED
    BY <2>7, <2>10 DEF ShelfInv
<1>5. CASE R!deleteCollection \/ R!handleSubmit
  <2>1. PICK op \in {"delete", "create"}, c \in {0} \cup R!Cols : R!Ask(op, c)
    BY <1>0, <1>5 DEF R!deleteCollection, R!handleSubmit, ShelfTypes, R!None
  <2>2. R!MayAsk /\ UNCHANGED <<server, seen, ui, assigned, busy, missed>>
    BY <1>5 DEF R!deleteCollection, R!handleSubmit
  <2>3. PICK r : r = [op |-> op, col |-> c, at |-> "sent", live |-> TRUE]
    OBVIOUS
  <2>4. r \in ReqRecords /\ r.op \notin R!Ops /\ reqs' = Append(reqs, r)
    BY <2>1, <2>3 DEF ReqRecords, R!Ops, R!Ask
  <2>5. reqs' \in Seq(ReqRecords) /\ Len(reqs') <= MaxReqs
    BY <2>2, <2>4, AskTypes
  <2>6. FilingOK'
    BY <2>2, <2>4, AskKeeps
  <2> QED
    BY <1>0, <2>2, <2>5, <2>6 DEF ShelfInv, ShelfTypes
<1>6. CASE R!openCreate
  <2>1. ui' = [ui EXCEPT !.create = IF ui.menu THEN "menu" ELSE "sidebar", !.failed = FALSE]
    BY <1>6 DEF R!openCreate
  <2>2. ui' \in Uis /\ ui'.menu = ui.menu /\ (ui'.create = "menu" => ui.menu)
    BY <1>0, <2>1 DEF ShelfTypes, Uis
  <2> QED
    BY <1>0, <1>6, <1>s, <2>2 DEF R!openCreate, ShelfInv, ShelfTypes
<1>7. CASE R!closeCreate
  <2>1. /\ ui' = [ui EXCEPT !.create = "none", !.failed = FALSE] /\ reqs' = R!Unmount({"create"})
        /\ UNCHANGED <<server, seen, assigned, busy, missed>>
    BY <1>7 DEF R!closeCreate
  <2>2. ui' \in Uis /\ ui'.create = "none"
    BY <1>0, <2>1 DEF ShelfTypes, Uis
  <2>3. /\ reqs' \in Seq(ReqRecords) /\ Len(reqs') = Len(reqs)
        /\ \A k \in 1..Len(reqs) : reqs'[k].op = reqs[k].op /\ reqs'[k].col = reqs[k].col /\ reqs'[k].at = reqs[k].at
    BY <2>1, UnmountTypes
  <2>4. FilingOK'
    BY <2>1, <2>3, SameFiling
  <2> QED
    BY <1>0, <2>1, <2>2, <2>3, <2>4 DEF ShelfInv, ShelfTypes
<1> QED
  BY <1>1, <1>2, <1>3, <1>4, <1>5, <1>6, <1>7 DEF R!Dialogs

\* A request gets on to `at`.
LEMMA ReqAt ==
    ASSUME ShelfInv, NEW i \in 1..Len(reqs), NEW at \in {"done", "lost", "over"}, reqs' = [reqs EXCEPT ![i].at = at],
           reqs[i].at # "over"
    PROVE  /\ reqs' \in Seq(ReqRecords) /\ Len(reqs') = Len(reqs)
           /\ reqs'[i].at = at /\ reqs'[i].op = reqs[i].op /\ reqs'[i].col = reqs[i].col
           /\ \A k \in 1..Len(reqs) : k # i => reqs'[k] = reqs[k]
<1>1. reqs \in Seq(ReqRecords) /\ Len(reqs) \in Nat
  BY DEF ShelfInv, ShelfTypes
<1>2. PICK q : q = reqs[i]
  OBVIOUS
<1>3. q \in ReqRecords
  BY <1>1, <1>2, ElementOfSeq
<1>4. PICK r : r = [q EXCEPT !.at = at]
  OBVIOUS
<1>5. r \in ReqRecords /\ r.at = at /\ r.op = q.op /\ r.col = q.col
  BY <1>2, <1>3, <1>4 DEF ReqRecords
<1>6. reqs' = [reqs EXCEPT ![i] = r]
  BY <1>1, <1>2, <1>4
<1>7. reqs' \in Seq(ReqRecords) /\ Len(reqs') = Len(reqs) /\ reqs'[i] = r /\ \A k \in 1..Len(reqs) : k # i => reqs'[k] = reqs[k]
  BY <1>1, <1>5, <1>6
<1> QED
  BY <1>2, <1>5, <1>7

\* The collections and the filing after a request that fits.
LEMMA ResultTypes ==
    ASSUME ShelfTypes, NEW op \in {"assign", "remove", "delete", "create"}, NEW c \in {0} \cup R!Cols, R!Fits(op, c)
    PROVE  /\ R!Result(op, c) \in Shelves /\ R!Result(op, c).filed \subseteq R!Result(op, c).cols
           /\ \A d \in server.filed : d \in R!Result(op, c).filed \/ (d = c /\ op = "remove")
                                       \/ (d = c /\ op = "delete" /\ d \notin R!Result(op, c).cols)
           /\ op = "assign" => c \in R!Result(op, c).filed
<1>0. server \in Shelves /\ server.filed \subseteq server.cols /\ server.cols \subseteq R!Cols
  BY DEF ShelfTypes, Shelves
<1>1. CASE op = "assign"
  <2>1. R!Result(op, c) = [server EXCEPT !.filed = server.filed \cup {c}] /\ c \in server.cols
    BY <1>0, <1>1 DEF R!Result, R!Fits, Shelves
  <2>2. R!Result(op, c).filed = server.filed \cup {c} /\ R!Result(op, c).cols = server.cols
    BY <1>0, <2>1 DEF Shelves
  <2>3. R!Result(op, c) \in Shelves
    BY <1>0, <2>1 DEF Shelves
  <2> QED
    BY <1>0, <2>1, <2>2, <2>3
<1>2. CASE op = "remove"
  <2>1. R!Result(op, c) = [server EXCEPT !.filed = server.filed \ {c}]
    BY <1>0, <1>2 DEF R!Result, Shelves
  <2>2. R!Result(op, c).filed = server.filed \ {c} /\ R!Result(op, c).cols = server.cols
    BY <1>0, <2>1 DEF Shelves
  <2>3. R!Result(op, c) \in Shelves
    BY <1>0, <2>1 DEF Shelves
  <2> QED
    BY <1>0, <1>2, <2>2, <2>3
<1>3. CASE op = "delete"
  <2>1. R!Result(op, c) = [cols |-> server.cols \ {c}, filed |-> server.filed \ {c}]
    BY <1>0, <1>3 DEF R!Result, Shelves
  <2>2. R!Result(op, c).filed = server.filed \ {c} /\ R!Result(op, c).cols = server.cols \ {c}
    BY <1>0, <2>1
  <2>3. R!Result(op, c) \in Shelves
    BY <1>0, <2>1 DEF Shelves
  <2> QED
    BY <1>0, <1>3, <2>2, <2>3
<1>4. CASE op = "create"
  <2>0. R!Cols \ server.cols # {}
    BY <1>4 DEF R!Fits
  <2>1. PICK n : n = CHOOSE x \in R!Cols : x \notin server.cols
    OBVIOUS
  <2>2. n \in R!Cols
    BY <2>0, <2>1
  <2>3. R!Result(op, c) = [server EXCEPT !.cols = server.cols \cup {n}]
    BY <1>0, <1>4, <2>1 DEF R!Result, Shelves
  <2>4. R!Result(op, c).filed = server.filed /\ R!Result(op, c).cols = server.cols \cup {n}
    BY <1>0, <2>3 DEF Shelves
  <2>5. R!Result(op, c) \in Shelves
    BY <1>0, <2>2, <2>3 DEF Shelves
  <2> QED
    BY <1>0, <1>4, <2>4, <2>5
<1> QED
  BY <1>1, <1>2, <1>3, <1>4

\* The server's work on a request keeps it.
LEMMA ServeKeeps == ASSUME ShelfInv, NEW i \in 1..Len(reqs), R!Serve(i) PROVE ShelfInv'
<1>0. ShelfTypes /\ FilingOK /\ Len(reqs) \in Nat
  BY DEF ShelfInv, ShelfTypes
<1>1. reqs[i].at = "sent" /\ UNCHANGED <<seen, ui, assigned, busy>>
  BY DEF R!Serve
<1>2. reqs[i] \in ReqRecords
  BY <1>0, ElementOfSeq DEF ShelfTypes
<1>3. PICK op, c : op = reqs[i].op /\ c = reqs[i].col
  OBVIOUS
<1>4. op \in {"assign", "remove", "delete", "create"} /\ c \in {0} \cup R!Cols
  BY <1>1, <1>2, <1>3 DEF ReqRecords
<1>5. ASSUME NEW at \in {"done", "lost"}, reqs' = [reqs EXCEPT ![i].at = at],
             missed \subseteq missed', missed' \subseteq R!Cols,
             server' \in Shelves, server'.filed \subseteq server'.cols,
             \A d \in server.filed \ missed' : d \in server'.filed \/ (d = c /\ op = "remove" /\ at = "done"),
             op = "assign" /\ at = "done" => c \in server'.filed
      PROVE  ShelfInv'
  <2>1. /\ reqs' \in Seq(ReqRecords) /\ Len(reqs') = Len(reqs)
        /\ reqs'[i].at = at /\ reqs'[i].op = op /\ reqs'[i].col = c
        /\ \A k \in 1..Len(reqs) : k # i => reqs'[k] = reqs[k]
    BY <1>1, <1>3, <1>5, ReqAt
  <2>2. ShelfTypes'
    BY <1>0, <1>1, <1>5, <2>1 DEF ShelfTypes
  <2>3. ASSUME NEW d \in R!Cols, d \notin missed'
        PROVE  /\ \A j, k \in 1..Len(reqs') : Flying(j, d)' /\ Flying(k, d)' => j = k
               /\ \A k \in 1..Len(reqs') : Flying(k, d)' /\ reqs'[k].op = "assign" /\ reqs'[k].at = "done" => d \in server'.filed
               /\ d \in assigned' /\ d \notin server'.filed
                     => \E k \in 1..Len(reqs') : Flying(k, d)' /\ reqs'[k].op = "remove" /\ reqs'[k].at = "done"
    <3>1. d \in R!Cols \ missed
      BY <1>5, <2>3
    <3>2. \A k \in 1..Len(reqs) : Flying(k, d)' <=> Flying(k, d)
      BY <1>1, <1>3, <1>5, <2>1 DEF Flying
    <3>3. \A j, k \in 1..Len(reqs') : Flying(j, d)' /\ Flying(k, d)' => j = k
      BY <1>0, <2>1, <3>1, <3>2 DEF FilingOK
    <3>4. ASSUME NEW k \in 1..Len(reqs'), Flying(k, d)', reqs'[k].op = "assign", reqs'[k].at = "done"
          PROVE  d \in server'.filed
      <4>1. CASE k = i
        <5>1. op = "assign" /\ at = "done" /\ d = c
          BY <2>1, <3>4, <4>1 DEF Flying
        <5> QED
          BY <1>5, <5>1
      <4>2. CASE k # i
        <5>1. k \in 1..Len(reqs) /\ Flying(k, d) /\ reqs[k].op = "assign" /\ reqs[k].at = "done"
          BY <2>1, <3>2, <3>4, <4>2
        <5>2. d \in server.filed
          BY <1>0, <3>1, <5>1 DEF FilingOK
        <5>3. ~(d = c /\ op = "remove")
          <6> SUFFICES ASSUME d = c, op = "remove" PROVE FALSE
            OBVIOUS
          <6>1. Flying(i, d)
            BY <1>1, <1>3 DEF Flying, R!Ops
          <6> QED
            BY <1>0, <3>1, <4>2, <5>1, <6>1 DEF FilingOK
        <5> QED
          BY <1>5, <2>3, <5>2, <5>3
      <4> QED
        BY <4>1, <4>2
    <3>5. ASSUME d \in assigned', d \notin server'.filed
          PROVE  \E k \in 1..Len(reqs') : Flying(k, d)' /\ reqs'[k].op = "remove" /\ reqs'[k].at = "done"
      <4>1. CASE d \in server.filed
        <5>1. d = c /\ op = "remove" /\ at = "done"
          BY <1>5, <2>3, <3>5, <4>1
        <5>2. Flying(i, d)
          BY <1>1, <1>3, <5>1 DEF Flying, R!Ops
        <5> QED
          BY <2>1, <3>2, <5>1, <5>2
      <4>2. CASE d \notin server.filed
        <5>1. PICK k \in 1..Len(reqs) : Flying(k, d) /\ reqs[k].op = "remove" /\ reqs[k].at = "done"
          BY <1>0, <1>1, <3>1, <3>5, <4>2 DEF FilingOK
        <5>2. k # i
          BY <1>1, <5>1
        <5> QED
          BY <2>1, <3>2, <5>1, <5>2
      <4> QED
        BY <4>1, <4>2
    <3> QED
      BY <3>3, <3>4, <3>5
  <2>4. FilingOK'
    BY <2>3 DEF FilingOK
  <2> QED
    BY <2>2, <2>4 DEF ShelfInv
<1>6. CASE R!Fits(op, c) /\ server' = R!Result(op, c) /\ reqs' = [reqs EXCEPT ![i].at = "done"] /\ missed' = missed \cup (server.cols \ server'.cols)
  <2>1. /\ server' \in Shelves /\ server'.filed \subseteq server'.cols
        /\ \A d \in server.filed : d \in server'.filed \/ (d = c /\ op = "remove") \/ (d = c /\ op = "delete" /\ d \notin server'.cols)
        /\ op = "assign" => c \in server'.filed
    BY <1>0, <1>4, <1>6, ResultTypes
  <2>2. \A d \in server.filed \ missed' : d \in server'.filed \/ (d = c /\ op = "remove")
    BY <1>0, <1>6, <2>1 DEF ShelfTypes
  <2>3. missed \subseteq missed' /\ missed' \subseteq R!Cols
    BY <1>0, <1>6 DEF ShelfTypes, Shelves
  <2> QED
    BY <1>5, <1>6, <2>1, <2>2, <2>3
<1>7. CASE R!Fits(op, c) /\ server' = R!Result(op, c) /\ reqs' = [reqs EXCEPT ![i].at = "lost"] /\ missed' = missed \cup ({c} \ {0})
  <2>1. /\ server' \in Shelves /\ server'.filed \subseteq server'.cols
        /\ \A d \in server.filed : d \in server'.filed \/ (d = c /\ op = "remove") \/ (d = c /\ op = "delete" /\ d \notin server'.cols)
    BY <1>0, <1>4, <1>7, ResultTypes
  <2>2. \A d \in server.filed \ missed' : d \in server'.filed
    <3>1. 0 \notin server.filed
      BY <1>0 DEF ShelfTypes, Shelves, R!Cols
    <3> QED
      BY <1>7, <2>1, <3>1
  <2>3. missed \subseteq missed' /\ missed' \subseteq R!Cols
    BY <1>0, <1>4, <1>7 DEF ShelfTypes
  <2> QED
    BY <1>5, <1>7, <2>1, <2>2, <2>3
<1>8. CASE reqs' = [reqs EXCEPT ![i].at = "lost"] /\ UNCHANGED <<server, missed>>
  BY <1>0, <1>5, <1>8 DEF ShelfTypes
<1> QED
  BY <1>3, <1>6, <1>7, <1>8 DEF R!Serve, R!None

\* Someone else's filing keeps it.
LEMMA ElsewhereKeeps == ASSUME ShelfInv, R!FiledElsewhere PROVE ShelfInv'
<1>0. ShelfTypes /\ FilingOK /\ Len(reqs) \in Nat
  BY DEF ShelfInv, ShelfTypes
<1>1. PICK c \in server.cols, op \in R!Ops : server' = R!Result(op, c) /\ missed' = missed \cup {c}
  BY DEF R!FiledElsewhere
<1>2. PICK r : r = [op |-> "other", col |-> 0, at |-> "over", live |-> FALSE]
  OBVIOUS
<1>3. R!MayAsk /\ reqs' = Append(reqs, r) /\ UNCHANGED <<seen, ui, assigned, busy>>
  BY <1>2 DEF R!FiledElsewhere, R!None
<1>4. r \in ReqRecords /\ r.at = "over"
  BY <1>2 DEF ReqRecords, R!Ops
<1>5. PICK n \in Nat : n = Len(reqs)
  BY <1>0
<1>6. /\ reqs' \in Seq(ReqRecords) /\ Len(reqs') <= MaxReqs /\ Len(reqs') = n + 1
      /\ reqs'[n + 1] = r /\ \A k \in 1..n : reqs'[k] = reqs[k]
  BY <1>3, <1>4, <1>5, AskTypes
<1>7. 1..Len(reqs') = 1..n \cup {n + 1}
  BY <1>5, <1>6
<1>8. c \in R!Cols /\ op \in {"assign", "remove"} /\ R!Fits(op, c)
  BY <1>0 DEF ShelfTypes, Shelves, R!Ops, R!Fits
<1>9. /\ server' \in Shelves /\ server'.filed \subseteq server'.cols
      /\ \A d \in server.filed : d \in server'.filed \/ d = c
  BY <1>0, <1>1, <1>8, ResultTypes
<1>10. ShelfTypes'
  BY <1>0, <1>1, <1>3, <1>6, <1>8, <1>9 DEF ShelfTypes
<1>11. ASSUME NEW d \in R!Cols, d \notin missed'
       PROVE  /\ \A j, k \in 1..Len(reqs') : Flying(j, d)' /\ Flying(k, d)' => j = k
              /\ \A k \in 1..Len(reqs') : Flying(k, d)' /\ reqs'[k].op = "assign" /\ reqs'[k].at = "done" => d \in server'.filed
              /\ d \in assigned' /\ d \notin server'.filed
                    => \E k \in 1..Len(reqs') : Flying(k, d)' /\ reqs'[k].op = "remove" /\ reqs'[k].at = "done"
  <2>1. d \in R!Cols \ missed /\ d # c
    BY <1>1, <1>11
  <2>2. ~Flying(n + 1, d)' /\ \A k \in 1..n : Flying(k, d)' <=> Flying(k, d)
    BY <1>4, <1>6 DEF Flying
  <2>3. \A k \in 1..Len(reqs') : Flying(k, d)' => k \in 1..n /\ Flying(k, d) /\ reqs'[k] = reqs[k]
    BY <1>6, <1>7, <2>2
  <2>4. \A k \in 1..n : k \in 1..Len(reqs') /\ (Flying(k, d) => Flying(k, d)') /\ reqs'[k] = reqs[k]
    BY <1>6, <1>7, <2>2
  <2>5. d \in server.filed => d \in server'.filed
    BY <1>9, <2>1
  <2> QED
    BY <1>0, <1>3, <1>5, <2>1, <2>3, <2>4, <2>5 DEF FilingOK
<1>12. FilingOK'
  BY <1>11 DEF FilingOK
<1> QED
  BY <1>10, <1>12 DEF ShelfInv

\* The answers keep it.
LEMMA AnsweredKeeps == ASSUME ShelfInv, NEW i \in 1..Len(reqs), R!Answered(i) PROVE ShelfInv'
<1>0. ShelfTypes /\ FilingOK /\ Len(reqs) \in Nat /\ reqs[i] \in ReqRecords
  BY ElementOfSeq DEF ShelfInv, ShelfTypes
<1>1. reqs[i].at \in {"done", "lost"} /\ reqs' = [reqs EXCEPT ![i].at = "over"] /\ UNCHANGED <<server, seen>>
  BY DEF R!Answered, R!ToggleAnswered, R!CreateAnswered, R!DeleteAnswered
<1>2. /\ reqs' \in Seq(ReqRecords) /\ Len(reqs') = Len(reqs)
      /\ reqs'[i].at = "over" /\ reqs'[i].op = reqs[i].op /\ reqs'[i].col = reqs[i].col
      /\ \A k \in 1..Len(reqs) : k # i => reqs'[k] = reqs[k]
  BY <1>1, ReqAt
<1>3. CASE R!DeleteAnswered(i)
  <2>1. reqs[i].op \notin R!Ops /\ UNCHANGED <<ui, assigned, busy, missed>>
    BY <1>3 DEF R!DeleteAnswered, R!Ops
  <2>2. FilingOK'
    BY <1>1, <1>2, <2>1, NoToggle
  <2> QED
    BY <1>0, <1>1, <1>2, <2>1, <2>2 DEF ShelfInv, ShelfTypes
<1>4. CASE R!CreateAnswered(i)
  <2>1. /\ reqs[i].op \notin R!Ops /\ UNCHANGED <<assigned, busy, missed>>
        /\ \/ ui' = ui \/ ui' = [ui EXCEPT !.create = "none", !.failed = FALSE] \/ ui' = [ui EXCEPT !.failed = TRUE]
    BY <1>4 DEF R!CreateAnswered, R!Ops
  <2>2. FilingOK'
    BY <1>1, <1>2, <2>1, NoToggle
  <2>3. ui' \in Uis /\ (ui'.create = "menu" => ui'.menu)
    BY <1>0, <2>1 DEF ShelfTypes, Uis
  <2> QED
    BY <1>0, <1>1, <1>2, <2>1, <2>2, <2>3 DEF ShelfInv, ShelfTypes
<1>5. CASE R!ToggleAnswered(i)
  <2>1. PICK c : c = reqs[i].col
    OBVIOUS
  <2>2. c \in R!Cols /\ reqs[i].op \in R!Ops /\ ui' = ui
    BY <1>0, <1>5, <2>1 DEF ReqRecords, R!ToggleAnswered
  <2>3. \A d : Flying(i, d) => d = c
    BY <2>1 DEF Flying
  <2>4. \A d : ~Flying(i, d)' /\ \A k \in 1..Len(reqs) : k # i => (Flying(k, d)' <=> Flying(k, d))
    BY <1>2 DEF Flying
  <2>5. Flying(i, c)
    BY <1>1, <2>1, <2>2 DEF Flying
  <2>6. ASSUME busy' \in {0} \cup R!Cols, missed' \subseteq R!Cols, missed \subseteq missed', assigned' \subseteq R!Cols,
               \A d \in R!Cols \ missed' : d # c => (d \in assigned' => d \in assigned),
               c \in R!Cols \ missed' => (c \in assigned' => c \in server.filed)
        PROVE  ShelfInv'
    <3>1. ShelfTypes'
      BY <1>0, <1>1, <1>2, <2>2, <2>6 DEF ShelfTypes
    <3>2. ASSUME NEW d \in R!Cols, d \notin missed'
          PROVE  /\ \A j, k \in 1..Len(reqs') : Flying(j, d)' /\ Flying(k, d)' => j = k
                 /\ \A k \in 1..Len(reqs') : Flying(k, d)' /\ reqs'[k].op = "assign" /\ reqs'[k].at = "done" => d \in server'.filed
                 /\ d \in assigned' /\ d \notin server'.filed
                       => \E k \in 1..Len(reqs') : Flying(k, d)' /\ reqs'[k].op = "remove" /\ reqs'[k].at = "done"
      <4>1. d \in R!Cols \ missed
        BY <2>6, <3>2
      <4>2. \A k \in 1..Len(reqs') : Flying(k, d)' => k # i /\ k \in 1..Len(reqs) /\ Flying(k, d) /\ reqs'[k] = reqs[k]
        BY <1>2, <2>4
      <4>3. ASSUME d \in assigned', d \notin server'.filed
            PROVE  \E k \in 1..Len(reqs') : Flying(k, d)' /\ reqs'[k].op = "remove" /\ reqs'[k].at = "done"
        <5>1. d # c /\ d \in assigned /\ d \notin server.filed
          BY <1>1, <2>6, <3>2, <4>3
        <5>2. PICK k \in 1..Len(reqs) : Flying(k, d) /\ reqs[k].op = "remove" /\ reqs[k].at = "done"
          BY <1>0, <4>1, <5>1 DEF FilingOK
        <5>3. k # i
          BY <2>3, <5>1, <5>2
        <5> QED
          BY <1>2, <2>4, <5>2, <5>3
      <4> QED
        BY <1>0, <1>1, <4>1, <4>2, <4>3 DEF FilingOK
    <3>3. FilingOK'
      BY <3>2 DEF FilingOK
    <3> QED
      BY <3>1, <3>3 DEF ShelfInv
  <2>7. CASE ~R!Heard(i)
    <3>1. UNCHANGED <<assigned, busy>> /\ missed' = missed \cup {c} /\ c \in R!Cols
      BY <1>5, <2>1, <2>2, <2>7 DEF R!ToggleAnswered
    <3> QED
      BY <1>0, <2>6, <3>1 DEF ShelfTypes
  <2>8. CASE R!Heard(i)
    <3>1. /\ assigned' = IF reqs[i].at = "lost" THEN assigned
                         ELSE IF reqs[i].op = "assign" THEN assigned \cup {c} ELSE assigned \ {c}
          /\ busy' = 0 /\ missed' = missed
      BY <1>5, <2>1, <2>8 DEF R!ToggleAnswered, R!None
    <3>2. c \in R!Cols \ missed => (c \in assigned' => c \in server.filed)
      <4> SUFFICES ASSUME c \in R!Cols, c \notin missed, c \in assigned' PROVE c \in server.filed
        OBVIOUS
      <4>1. CASE reqs[i].at = "lost"
        <5>1. c \in assigned
          BY <3>1, <4>1
        <5>2. \A k \in 1..Len(reqs) : Flying(k, c) => k = i
          BY <1>0, <2>5 DEF FilingOK
        <5> QED
          BY <1>0, <4>1, <5>1, <5>2 DEF FilingOK
      <4>2. CASE reqs[i].at = "done"
        <5>1. reqs[i].op = "assign"
          BY <2>2, <3>1, <4>2 DEF R!Ops
        <5> QED
          BY <1>0, <2>5, <4>2, <5>1 DEF FilingOK
      <4> QED
        BY <1>1, <4>1, <4>2
    <3>3. assigned' \subseteq R!Cols
      BY <1>0, <2>2, <3>1 DEF ShelfTypes
    <3> QED
      BY <1>0, <2>6, <3>1, <3>2, <3>3 DEF ShelfTypes
  <2> QED
    BY <2>7, <2>8
<1> QED
  BY <1>3, <1>4, <1>5 DEF R!Answered

\* Every step of the shelf keeps it.
LEMMA ShelfStep == ShelfInv /\ [R!ShelfNext]_shelfVars => ShelfInv'
<1> SUFFICES ASSUME ShelfInv, [R!ShelfNext]_shelfVars PROVE ShelfInv'
  OBVIOUS
<1>0. DOMAIN reqs = 1..Len(reqs)
  BY DEF ShelfInv, ShelfTypes
<1>1. CASE UNCHANGED shelfVars
  BY <1>1 DEF shelfVars, ShelfInv, ShelfTypes, FilingOK, Flying
<1>2. CASE R!useRecipeCollections
  <2>1. seen' = server.cols /\ UNCHANGED <<server, ui, assigned, busy, reqs, missed>>
    BY <1>2 DEF R!useRecipeCollections
  <2>2. server.cols \subseteq R!Cols
    BY DEF ShelfInv, ShelfTypes, Shelves
  <2> QED
    BY <2>1, <2>2 DEF ShelfInv, ShelfTypes, FilingOK, Flying
<1> QED
  BY <1>0, <1>1, <1>2, DialogsKeep, ServeKeeps, ElsewhereKeeps, AnsweredKeeps DEF R!ShelfNext

-----------------------------------------------------------------------------
(* The shopping trip.                                                      *)

ListRecords == [week : S!Weeks, active : BOOLEAN, item : [S!Items -> S!Marks]]
RunRecords == [old : Nat, kept : SUBSET S!Items, new : Nat, mine : BOOLEAN, quiet : BOOLEAN,
               at : {"read", "off", "new", "fill", "done", "failed", "over"}]
Trips == [page : {"meals", "shopping"}, gen : {"idle", "loading", "ok", "error"},
          idles : Nat, leaves : BOOLEAN, week : S!Weeks]
Screens == [list : Nat, week : {0} \cup S!Weeks, item : [S!Items -> S!Marks]]
TickRecords == [item : S!Items, list : Nat, done : BOOLEAN, at : {"sent", "done", "lost", "over"}, live : BOOLEAN]

ShopTypes ==
    /\ lists \in Seq(ListRecords) /\ runs \in Seq(RunRecords) /\ ticks \in Seq(TickRecords)
    /\ trip \in Trips /\ shown \in Screens /\ shown.list <= Len(lists) /\ excused \subseteq S!Items
    /\ Len(runs) + Len(ticks) <= MaxRuns
    /\ \A g \in 1..Len(runs) : runs[g].old <= Len(lists) /\ runs[g].new <= Len(lists)
    /\ \A k \in 1..Len(ticks) : ticks[k].list # 0 /\ ticks[k].list <= Len(lists)

\* The screen shows, and a call names, items that their list has.
MarksOK ==
    /\ \A i \in S!Items : shown.item[i] # "absent" => shown.list # 0 /\ lists[shown.list].item[i] # "absent"
    /\ \A k \in 1..Len(ticks) : lists[ticks[k].list].item[ticks[k].item] # "absent"

\* A tick of item i that is under way.
Aloft(k, i) == ticks[k].item = i /\ ticks[k].at # "over"

\* For an item that met nothing the screen does not follow: one call at a time is under
\* way; it is for the list shown, the screen is ahead by it, and the server is ahead too once
\* it is done; and without a call screen and server agree.
ItemOK(i) ==
    /\ \A j, k \in 1..Len(ticks) : Aloft(j, i) /\ Aloft(k, i) => j = k
    /\ \A k \in 1..Len(ticks) :
          Aloft(k, i) => /\ ticks[k].list = shown.list /\ shown.item[i] = S!Mark(ticks[k].done)
                         /\ lists[shown.list].item[i] = S!Mark(ticks[k].done <=> (ticks[k].at = "done"))
    /\ (\A k \in 1..Len(ticks) : ~Aloft(k, i)) /\ shown.item[i] # "absent"
          => shown.item[i] = lists[shown.list].item[i]

TicksOK == \A i \in S!Items \ excused : ItemOK(i)

Idle == {"done", "failed", "over"}

\* A list being filled: the items come in order, and the last is still absent.
Filling(l) ==
    /\ l.item[NItems] = "absent"
    /\ \A i, j \in S!Items : i <= j /\ l.item[i] = "absent" => l.item[j] = "absent"

\* A run of Generate that nothing came in between: it alone is under way, what it keeps is
\* what is ticked in the old list, and the new list has that of it so far.
QuietOK(r) ==
    /\ r.at \in {"off", "new", "fill"} /\ r.old # 0 => r.kept = S!Done(lists[r.old])
    /\ r.at = "fill" => /\ r.old # r.new
                        /\ \A i \in S!Items : lists[r.new].item[i] # "absent" => (lists[r.new].item[i] = "done" <=> i \in r.kept)

\* Runs fill lists of their own.
RunsOK ==
    /\ \A g \in 1..Len(runs) : runs[g].at = "fill" => runs[g].new # 0 /\ Filling(lists[runs[g].new])
    /\ \A g, h \in 1..Len(runs) : runs[g].at = "fill" /\ runs[h].at = "fill" /\ runs[g].new = runs[h].new => g = h
    /\ \A g \in 1..Len(runs) :
          runs[g].quiet /\ runs[g].at \notin Idle =>
              QuietOK(runs[g]) /\ \A h \in 1..Len(runs) : h # g => runs[h].at \in Idle

\* A copy names a list among ls, and items that list has.
Copied(copy, ls) ==
    /\ copy \in Screens /\ copy.list <= Len(ls)
    /\ \A i \in S!Items : copy.item[i] # "absent" => copy.list # 0 /\ ls[copy.list].item[i] # "absent"

CopiesOK ==
    /\ cache \in [{"held", "coming"} -> Screens]
    /\ Copied(cache["held"], lists) /\ Copied(cache["coming"], lists)

\* The inductive invariant of the shopping trip; its first part does not need the copies.
TripInv == ShopTypes /\ MarksOK /\ TicksOK /\ RunsOK
ShopInv == TripInv /\ CopiesOK

\* The sequences of the trip, and their elements.
LEMMA ShopFacts ==
    ASSUME ShopTypes
    PROVE  /\ Len(lists) \in Nat /\ Len(runs) \in Nat /\ Len(ticks) \in Nat /\ NItems \in Nat /\ NItems > 0 /\ MaxRuns \in Nat
           /\ DOMAIN lists = 1..Len(lists) /\ DOMAIN runs = 1..Len(runs) /\ DOMAIN ticks = 1..Len(ticks)
           /\ \A n \in 1..Len(lists) : lists[n] \in ListRecords
           /\ \A g \in 1..Len(runs) : runs[g] \in RunRecords
           /\ \A k \in 1..Len(ticks) : ticks[k] \in TickRecords
<1>1. lists \in Seq(ListRecords) /\ runs \in Seq(RunRecords) /\ ticks \in Seq(TickRecords)
  BY DEF ShopTypes
<1>2. \A n \in 1..Len(lists) : lists[n] \in ListRecords
  BY <1>1, ElementOfSeq
<1>3. \A g \in 1..Len(runs) : runs[g] \in RunRecords
  BY <1>1, ElementOfSeq
<1>4. \A k \in 1..Len(ticks) : ticks[k] \in TickRecords
  BY <1>1, ElementOfSeq
<1> QED
  BY <1>1, <1>2, <1>3, <1>4, BoundsAssumption

\* It is what the run checks.
LEMMA ShopImplies == ShopInv => S!ShopTypeOK /\ S!TicksAgree
<1> SUFFICES ASSUME ShopInv PROVE S!ShopTypeOK /\ S!TicksAgree
  OBVIOUS
<1>0. /\ Len(lists) \in Nat /\ Len(runs) \in Nat /\ Len(ticks) \in Nat
      /\ DOMAIN lists = 1..Len(lists) /\ DOMAIN runs = 1..Len(runs) /\ DOMAIN ticks = 1..Len(ticks)
      /\ \A n \in 1..Len(lists) : lists[n] \in ListRecords
  BY ShopFacts DEF ShopInv, TripInv
<1>1. ASSUME NEW g \in 1..Len(runs)
      PROVE  runs[g] \in [old : 0..Len(lists), kept : SUBSET S!Items, new : 0..Len(lists), mine : BOOLEAN,
                          quiet : BOOLEAN, at : {"read", "off", "new", "fill", "done", "failed", "over"}]
  <2>1. runs[g] \in RunRecords /\ runs[g].old <= Len(lists) /\ runs[g].new <= Len(lists)
    BY ShopFacts DEF ShopInv, TripInv, ShopTypes
  <2>2. runs[g].old \in 0..Len(lists) /\ runs[g].new \in 0..Len(lists)
    BY <1>0, <2>1 DEF RunRecords
  <2> QED
    BY <2>1, <2>2 DEF RunRecords
<1>2. ASSUME NEW k \in 1..Len(ticks)
      PROVE  ticks[k] \in [item : S!Items, list : 1..Len(lists), done : BOOLEAN,
                           at : {"sent", "done", "lost", "over"}, live : BOOLEAN]
  <2>1. ticks[k] \in TickRecords /\ ticks[k].list # 0 /\ ticks[k].list <= Len(lists)
    BY ShopFacts DEF ShopInv, TripInv, ShopTypes
  <2>2. ticks[k].list \in 1..Len(lists)
    BY <1>0, <2>1 DEF TickRecords
  <2> QED
    BY <2>1, <2>2 DEF TickRecords
<1>3. shown \in [list : 0..Len(lists), week : {0} \cup S!Weeks, item : [S!Items -> S!Marks]]
  <2>1. shown.list \in 0..Len(lists)
    BY <1>0 DEF ShopInv, TripInv, ShopTypes, Screens
  <2> QED
    BY <2>1 DEF ShopInv, TripInv, ShopTypes, Screens
<1>a. cache \in [{"held", "coming"} -> [list : 0..Len(lists), week : {0} \cup S!Weeks, item : [S!Items -> S!Marks]]]
  <2>1. ASSUME NEW c \in {"held", "coming"}
        PROVE  cache[c] \in [list : 0..Len(lists), week : {0} \cup S!Weeks, item : [S!Items -> S!Marks]]
    <3>1. cache[c] \in Screens /\ cache[c].list <= Len(lists)
      BY DEF ShopInv, CopiesOK, Copied
    <3>2. cache[c].list \in 0..Len(lists)
      BY <1>0, <3>1 DEF Screens
    <3> QED
      BY <3>1, <3>2 DEF Screens
  <2> QED
    BY <2>1 DEF ShopInv, CopiesOK
<1>4. S!ShopTypeOK
  BY <1>0, <1>1, <1>2, <1>3, <1>a DEF ShopInv, TripInv, ShopTypes, S!ShopTypeOK, ListRecords, Trips
<1>5. S!TicksAgree
  BY <1>0 DEF ShopInv, TripInv, TicksOK, ItemOK, Aloft, S!TicksAgree, S!InFlight
<1> QED
  BY <1>4, <1>5

\* No copy is a copy of no list, without items.
LEMMA NoCopyEmpty == S!NoCopy \in Screens /\ S!NoCopy.list = 0 /\ \A i \in S!Items : S!NoCopy.item[i] = "absent"
<1>1. PICK e : e = S!Empty
  OBVIOUS
<1>2. e \in [S!Items -> S!Marks] /\ \A i \in S!Items : e[i] = "absent"
  BY <1>1 DEF S!Empty, S!Marks
<1>3. PICK c : c = S!NoCopy
  OBVIOUS
<1>4. c = [list |-> 0, week |-> 0, item |-> e]
  BY <1>1, <1>3 DEF S!NoCopy
<1>5. c \in Screens /\ c.list = 0 /\ c.item = e
  BY <1>2, <1>4 DEF Screens
<1> QED
  BY <1>2, <1>3, <1>5

\* The page has just opened on the one list.
LEMMA ShopInitInv == S!ShopInit => ShopInv
<1> SUFFICES ASSUME S!ShopInit PROVE ShopInv
  OBVIOUS
<1>1. PICK l : l = [week |-> 1, active |-> TRUE, item |-> [i \in S!Items |-> "open"]]
  OBVIOUS
<1>2. l \in ListRecords /\ l.item = [i \in S!Items |-> "open"] /\ l.item \in [S!Items -> S!Marks]
  BY <1>1 DEF ListRecords, S!Weeks, S!Marks
<1>3. lists \in Seq(ListRecords) /\ Len(lists) = 1 /\ lists[1] = l
  BY <1>1, <1>2 DEF S!ShopInit
<1>4. /\ runs \in Seq(RunRecords) /\ Len(runs) = 0 /\ ticks \in Seq(TickRecords) /\ Len(ticks) = 0
      /\ excused = {}
  BY DEF S!ShopInit
<1>5. trip \in Trips
  BY DEF S!ShopInit, Trips
<1>6. shown = [list |-> 1, week |-> 1, item |-> l.item]
  BY <1>3 DEF S!ShopInit, S!CopyOf
<1>7. shown \in Screens /\ shown.list = 1 /\ shown.item = l.item
  BY <1>2, <1>6 DEF Screens, S!Weeks
<1>8. ShopTypes
  <2>1. shown.list <= Len(lists) /\ Len(runs) + Len(ticks) <= MaxRuns
    BY <1>3, <1>4, <1>7, BoundsAssumption
  <2> QED
    BY <1>3, <1>4, <1>5, <1>7, <2>1 DEF ShopTypes
<1>9. MarksOK /\ TicksOK
  BY <1>2, <1>3, <1>4, <1>7 DEF MarksOK, TicksOK, ItemOK
<1>10. RunsOK
  BY <1>4 DEF RunsOK
<1>11. CopiesOK
  <2>1. S!NoCopy \in Screens /\ S!NoCopy.list = 0 /\ \A i \in S!Items : S!NoCopy.item[i] = "absent"
    BY NoCopyEmpty
  <2>2. cache["held"] = shown /\ cache["coming"] = S!NoCopy /\ cache \in [{"held", "coming"} -> Screens]
    BY <1>7, <2>1 DEF S!ShopInit
  <2>3. Copied(shown, lists)
    BY <1>3, <1>7, <1>8, <1>9 DEF Copied, MarksOK, ShopTypes
  <2>4. Copied(S!NoCopy, lists)
    BY <1>3, <2>1 DEF Copied
  <2> QED
    BY <2>2, <2>3, <2>4 DEF CopiesOK
<1> QED
  BY <1>8, <1>9, <1>10, <1>11 DEF ShopInv, TripInv

\* The highest number of a set, below a bound.
LEMMA Highest == ASSUME NEW n \in Nat, NEW T, T \subseteq 1..n, T # {} PROVE \E m \in T : \A t \in T : t <= m
<1> DEFINE D == {d \in Nat : n - d \in T}
<1>1. D # {}
  <2>1. PICK t \in T : TRUE
    OBVIOUS
  <2>2. t \in 1..n
    BY <2>1
  <2>3. n - t \in Nat /\ n - (n - t) = t
    BY <2>2, SMT
  <2> QED
    BY <2>1, <2>3
<1>2. PICK d \in D : \A e \in D : d <= e
  BY <1>1, Lowest
<1>3. ASSUME NEW t \in T PROVE t <= n - d
  <2>1. t \in 1..n
    OBVIOUS
  <2>2. n - t \in Nat /\ n - (n - t) = t
    BY <2>1, SMT
  <2>3. d <= n - t
    BY <1>2, <2>2
  <2> QED
    BY <2>1, <2>2, <2>3, SMT
<1> QED
  BY <1>3

\* GetActiveShoppingList names a list, or none.
LEMMA CurrentType == ASSUME ShopTypes PROVE S!GetCurrent \in Nat /\ S!GetCurrent <= Len(lists)
<1>0. Len(lists) \in Nat /\ DOMAIN lists = 1..Len(lists)
  BY ShopFacts
<1>1. CASE S!Active = {}
  BY <1>0, <1>1 DEF S!GetCurrent
<1>2. CASE S!Active # {}
  <2>1. S!Active \subseteq 1..Len(lists)
    BY <1>0 DEF S!Active
  <2>2. \E m \in S!Active : \A t \in S!Active : t <= m
    BY <1>0, <1>2, <2>1, Highest
  <2>3. S!GetCurrent \in S!Active
    BY <1>2, <2>2 DEF S!GetCurrent
  <2>4. S!GetCurrent \in 1..Len(lists)
    BY <2>1, <2>3
  <2> QED
    BY <1>0, <2>4
<1> QED
  BY <1>1, <1>2

\* Disturb takes the quiet of every other run under way, and nothing else.
LEMMA Disturbed ==
    ASSUME ShopTypes, NEW g
    PROVE  /\ S!Disturb(g) \in Seq(RunRecords) /\ Len(S!Disturb(g)) = Len(runs)
           /\ \A h \in 1..Len(runs) :
                 /\ S!Disturb(g)[h].at = runs[h].at /\ S!Disturb(g)[h].new = runs[h].new
                 /\ S!Disturb(g)[h].old = runs[h].old /\ S!Disturb(g)[h].kept = runs[h].kept
                 /\ S!Disturb(g)[h].mine = runs[h].mine
                 /\ S!Disturb(g)[h].quiet => runs[h].quiet /\ (h = g \/ runs[h].at \in Idle)
                 /\ h = g \/ runs[h].at \in Idle => S!Disturb(g)[h] = runs[h]
<1>0. /\ DOMAIN runs = 1..Len(runs) /\ Len(runs) \in Nat
      /\ \A h \in 1..Len(runs) : runs[h] \in RunRecords
  BY ShopFacts
<1>1. PICK d : d = S!Disturb(g)
  OBVIOUS
<1>2. d = [h \in 1..Len(runs) |-> IF h # g /\ runs[h].at \notin Idle THEN [runs[h] EXCEPT !.quiet = FALSE] ELSE runs[h]]
  BY <1>0, <1>1 DEF S!Disturb, Idle
<1>3. ASSUME NEW h \in 1..Len(runs)
      PROVE  /\ d[h] \in RunRecords
             /\ d[h].at = runs[h].at /\ d[h].new = runs[h].new /\ d[h].old = runs[h].old /\ d[h].kept = runs[h].kept
             /\ d[h].mine = runs[h].mine
             /\ d[h].quiet => runs[h].quiet /\ (h = g \/ runs[h].at \in Idle)
             /\ h = g \/ runs[h].at \in Idle => d[h] = runs[h]
  <2>1. CASE h # g /\ runs[h].at \notin Idle
    <3>1. PICK q, r : q = runs[h] /\ r = d[h]
      OBVIOUS
    <3>2. q \in RunRecords /\ r = [q EXCEPT !.quiet = FALSE]
      BY <1>0, <1>2, <2>1, <3>1
    <3>3. /\ r \in RunRecords /\ r.at = q.at /\ r.new = q.new /\ r.old = q.old /\ r.kept = q.kept /\ r.mine = q.mine
          /\ r.quiet = FALSE
      BY <3>2 DEF RunRecords
    <3> QED
      BY <2>1, <3>1, <3>3
  <2>2. CASE h = g \/ runs[h].at \in Idle
    <3>1. d[h] = runs[h]
      BY <1>2, <2>2
    <3> QED
      BY <1>0, <2>2, <3>1
  <2> QED
    BY <2>1, <2>2
<1>4. d \in [1..Len(runs) -> RunRecords]
  BY <1>2, <1>3
<1>5. d \in Seq(RunRecords) /\ Len(d) = Len(runs)
  BY <1>0, <1>4
<1> QED
  BY <1>1, <1>3, <1>5

\* Lists may come, and absent items appear.
Extends ==
    /\ Len(lists) <= Len(lists')
    /\ \A n \in 1..Len(lists), i \in S!Items :
          lists[n].item[i] # "absent" => lists'[n].item[i] = lists[n].item[i]

\* The calls as they were, but for who hears of their answers.
SameTicks ==
    /\ Len(ticks') = Len(ticks)
    /\ \A k \in 1..Len(ticks) : /\ ticks'[k].item = ticks[k].item /\ ticks'[k].list = ticks[k].list
                                /\ ticks'[k].done = ticks[k].done /\ ticks'[k].at = ticks[k].at

\* A tick is for an item of a list.
LEMMA TickAt ==
    ASSUME ShopTypes, NEW k \in 1..Len(ticks)
    PROVE  /\ ticks[k] \in TickRecords /\ ticks[k].list \in 1..Len(lists) /\ ticks[k].item \in S!Items
           /\ ticks[k].done \in BOOLEAN
<1>1. ticks[k] \in TickRecords /\ Len(lists) \in Nat
  BY ShopFacts
<1>2. ticks[k].list # 0 /\ ticks[k].list <= Len(lists)
  BY DEF ShopTypes
<1> QED
  BY <1>1, <1>2 DEF TickRecords

\* What is shown is of a list.
LEMMA ShownAt ==
    ASSUME ShopTypes, MarksOK, NEW i \in S!Items, shown.item[i] # "absent"
    PROVE  shown.list \in 1..Len(lists) /\ lists[shown.list].item[i] # "absent" /\ lists[shown.list].item[i] \in S!Marks
<1>1. shown.list # 0 /\ lists[shown.list].item[i] # "absent"
  BY DEF MarksOK
<1>2. shown.list \in Nat /\ shown.list <= Len(lists) /\ Len(lists) \in Nat
  BY ShopFacts DEF ShopTypes, Screens
<1>3. shown.list \in 1..Len(lists)
  BY <1>1, <1>2
<1>4. lists[shown.list] \in ListRecords
  BY <1>3, ShopFacts
<1> QED
  BY <1>1, <1>3, <1>4 DEF ListRecords

\* A step that does not concern item i.
LEMMA ItemKept ==
    ASSUME NEW i \in S!Items, ItemOK(i), shown'.list = shown.list, shown'.item[i] = shown.item[i],
           shown.item[i] # "absent" => lists'[shown.list].item[i] = lists[shown.list].item[i],
           Len(ticks) \in Nat, Len(ticks') \in Nat, Len(ticks) <= Len(ticks'),
           \A k \in 1..Len(ticks) :
              (Aloft(k, i)' <=> Aloft(k, i)) /\ (Aloft(k, i) => /\ ticks'[k].list = ticks[k].list
                                                                /\ ticks'[k].done = ticks[k].done
                                                                /\ ticks'[k].at = ticks[k].at),
           \A k \in 1..Len(ticks') : Aloft(k, i)' => k \in 1..Len(ticks)
    PROVE  ItemOK(i)'
<1>0. \A k \in 1..Len(ticks) : k \in 1..Len(ticks')
  OBVIOUS
<1>1. ASSUME NEW j \in 1..Len(ticks'), NEW k \in 1..Len(ticks'), Aloft(j, i)', Aloft(k, i)' PROVE j = k
  BY <1>1 DEF ItemOK
<1>2. ASSUME NEW k \in 1..Len(ticks'), Aloft(k, i)'
      PROVE  /\ ticks'[k].list = shown'.list /\ shown'.item[i] = S!Mark(ticks'[k].done)
             /\ lists'[shown'.list].item[i] = S!Mark(ticks'[k].done <=> (ticks'[k].at = "done"))
  <2>1. /\ k \in 1..Len(ticks) /\ Aloft(k, i) /\ ticks'[k].list = ticks[k].list /\ ticks'[k].done = ticks[k].done
        /\ ticks'[k].at = ticks[k].at
    BY <1>2
  <2>2. /\ ticks[k].list = shown.list /\ shown.item[i] = S!Mark(ticks[k].done)
        /\ lists[shown.list].item[i] = S!Mark(ticks[k].done <=> (ticks[k].at = "done"))
    BY <2>1 DEF ItemOK
  <2>3. shown.item[i] # "absent"
    BY <2>2 DEF S!Mark
  <2> QED
    BY <2>1, <2>2, <2>3
<1>3. ASSUME \A k \in 1..Len(ticks') : ~Aloft(k, i)', shown'.item[i] # "absent"
      PROVE  shown'.item[i] = lists'[shown'.list].item[i]
  <2>1. \A k \in 1..Len(ticks) : ~Aloft(k, i)
    BY <1>0, <1>3
  <2>2. shown.item[i] = lists[shown.list].item[i]
    BY <1>3, <2>1 DEF ItemOK
  <2> QED
    BY <1>3, <2>2
<1> QED
  BY <1>1, <1>2, <1>3 DEF ItemOK

\* The screen stays right when lists only grow.
LEMMA ScreenKept ==
    ASSUME TripInv, Extends, UNCHANGED <<shown, excused>>, SameTicks
    PROVE  MarksOK' /\ TicksOK'
<1>0. ShopTypes /\ MarksOK /\ TicksOK /\ Len(lists) \in Nat /\ Len(ticks) \in Nat /\ Len(ticks') = Len(ticks)
  BY ShopFacts DEF TripInv, SameTicks
<1>3. ASSUME NEW i \in S!Items, shown.item[i] # "absent"
      PROVE  /\ shown.list # 0 /\ lists[shown.list].item[i] # "absent"
             /\ lists'[shown.list].item[i] = lists[shown.list].item[i]
  <2>1. shown.list \in 1..Len(lists) /\ lists[shown.list].item[i] # "absent"
    BY <1>0, <1>3, ShownAt
  <2> QED
    BY <1>0, <2>1 DEF Extends
<1>4. ASSUME NEW k \in 1..Len(ticks) PROVE lists'[ticks'[k].list].item[ticks'[k].item] # "absent"
  <2>1. ticks[k].list \in 1..Len(lists) /\ ticks[k].item \in S!Items
    BY <1>0, TickAt
  <2>2. ticks'[k].list = ticks[k].list /\ ticks'[k].item = ticks[k].item
    BY DEF SameTicks
  <2>3. lists[ticks[k].list].item[ticks[k].item] # "absent"
    BY <1>0 DEF MarksOK
  <2> QED
    BY <2>1, <2>2, <2>3 DEF Extends
<1>5. MarksOK'
  BY <1>0, <1>3, <1>4 DEF MarksOK
<1>6. ASSUME NEW i \in S!Items, i \notin excused PROVE ItemOK(i)'
  <2>1. \A k \in 1..Len(ticks) :
              (Aloft(k, i)' <=> Aloft(k, i)) /\ (Aloft(k, i) => /\ ticks'[k].list = ticks[k].list
                                                                /\ ticks'[k].done = ticks[k].done
                                                                /\ ticks'[k].at = ticks[k].at)
    BY DEF Aloft, SameTicks
  <2>2. ItemOK(i)
    BY <1>0, <1>6 DEF TicksOK
  <2> QED
    BY <1>0, <1>3, <2>1, <2>2, ItemKept
<1>7. TicksOK'
  BY <1>6 DEF TicksOK
<1> QED
  BY <1>5, <1>7

\* A step of run g, whose record becomes r.
LEMMA OneRun ==
    ASSUME TripInv, NEW g \in 1..Len(runs), runs[g].at \notin Idle, NEW r, runs'[g] = r, Len(runs') = Len(runs),
           \A h \in 1..Len(runs) :
              h # g => /\ runs'[h].at = runs[h].at /\ runs'[h].new = runs[h].new
                       /\ runs'[h].quiet => runs[h].quiet
                       /\ runs[h].at = "fill" => Filling(lists'[runs[h].new]),
           r.at = "fill" => /\ r.new # 0 /\ Filling(lists'[r.new])
                            /\ \A h \in 1..Len(runs) : h # g /\ runs[h].at = "fill" => runs[h].new # r.new,
           r.quiet /\ r.at \notin Idle => runs[g].quiet /\ QuietOK(r)'
    PROVE  RunsOK'
<1>0. RunsOK
  BY DEF TripInv
<1>1. \A h \in 1..Len(runs) : h # g => ~(runs'[h].quiet /\ runs'[h].at \notin Idle)
  BY <1>0 DEF RunsOK
<1>2. \A h \in 1..Len(runs') : runs'[h].at = "fill" => runs'[h].new # 0 /\ Filling(lists'[runs'[h].new])
  BY <1>0 DEF RunsOK
<1>3. \A f, h \in 1..Len(runs') : runs'[f].at = "fill" /\ runs'[h].at = "fill" /\ runs'[f].new = runs'[h].new => f = h
  BY <1>0 DEF RunsOK
<1>4. ASSUME NEW f \in 1..Len(runs'), runs'[f].quiet, runs'[f].at \notin Idle
      PROVE  (\A h \in 1..Len(runs') : h # f => runs'[h].at \in Idle) /\ QuietOK(runs[f])'
  <2>1. f = g
    BY <1>1, <1>4
  <2>2. runs[g].quiet /\ QuietOK(r)'
    BY <1>4, <2>1
  <2>3. \A h \in 1..Len(runs') : h # f => runs'[h].at \in Idle
    BY <1>0, <2>1, <2>2 DEF RunsOK
  <2>4. QuietOK(runs[f])'
    BY <2>1, <2>2 DEF QuietOK
  <2> QED
    BY <2>3, <2>4
<1>6. \A f \in 1..Len(runs') : runs'[f].at = "fill" => runs'[f].new # 0 /\ Filling(lists[runs[f].new])'
  BY <1>2 DEF Filling
<1> QED
  BY <1>3, <1>4, <1>6 DEF RunsOK

\* A run names lists there are.
LEMMA RunAt ==
    ASSUME ShopTypes, NEW h \in 1..Len(runs)
    PROVE  /\ runs[h] \in RunRecords /\ runs[h].old \in Nat /\ runs[h].new \in Nat
           /\ runs[h].old <= Len(lists) /\ runs[h].new <= Len(lists)
<1>1. runs[h] \in RunRecords
  BY ShopFacts
<1>2. runs[h].old <= Len(lists) /\ runs[h].new <= Len(lists)
  BY DEF ShopTypes
<1> QED
  BY <1>1, <1>2 DEF RunRecords

\* A run left alone by a step that disturbs the others.
LEMMA DisturbedAt ==
    ASSUME ShopTypes, NEW g, NEW h \in 1..Len(runs), NEW e, e = S!Disturb(g)[h]
    PROVE  /\ e.at = runs[h].at /\ e.new = runs[h].new /\ e.old = runs[h].old /\ (e.quiet => runs[h].quiet)
           /\ e.quiet => h = g \/ e.at \in Idle
<1>1. /\ e.at = runs[h].at /\ e.new = runs[h].new /\ e.old = runs[h].old
      /\ e.quiet => runs[h].quiet /\ (h = g \/ runs[h].at \in Idle)
  BY Disturbed
<1> QED
  BY <1>1

\* A quiet run under way is alone.
LEMMA QuietRun ==
    ASSUME RunsOK, NEW g \in 1..Len(runs), runs[g].quiet, runs[g].at \notin Idle
    PROVE  QuietOK(runs[g]) /\ \A h \in 1..Len(runs) : h # g => runs[h].at \in Idle
<1>1. \A f \in 1..Len(runs) :
          runs[f].quiet /\ runs[f].at \notin Idle =>
              QuietOK(runs[f]) /\ \A h \in 1..Len(runs) : h # f => runs[h].at \in Idle
  BY DEF RunsOK
<1>2. runs[g].quiet /\ runs[g].at \notin Idle =>
              QuietOK(runs[g]) /\ \A h \in 1..Len(runs) : h # g => runs[h].at \in Idle
  BY <1>1, Zenon
<1> QED
  BY <1>2

\* A list being filled by a run.
LEMMA FillingAt ==
    ASSUME ShopTypes, RunsOK, NEW h \in 1..Len(runs), runs[h].at = "fill"
    PROVE  runs[h].new \in 1..Len(lists) /\ Filling(lists[runs[h].new])
<1>1. runs[h].new # 0 /\ Filling(lists[runs[h].new])
  BY DEF RunsOK
<1>2. runs[h].new \in Nat /\ runs[h].new <= Len(lists)
  BY RunAt
<1>3. Len(lists) \in Nat
  BY ShopFacts
<1> QED
  BY <1>1, <1>2, <1>3

\* The types after a step of the server.
LEMMA RunTypes ==
    ASSUME ShopTypes, lists' \in Seq(ListRecords), Len(lists) <= Len(lists'),
           runs' \in Seq(RunRecords), Len(runs') = Len(runs),
           \A h \in 1..Len(runs) : runs'[h].old <= Len(lists') /\ runs'[h].new <= Len(lists'),
           trip' \in Trips, UNCHANGED <<shown, ticks, excused>>
    PROVE  ShopTypes'
<1>0. /\ Len(lists) \in Nat /\ \A k \in 1..Len(ticks) : ticks[k] \in TickRecords
  BY ShopFacts
<1>1. Len(lists') \in Nat
  OBVIOUS
<1>2. shown.list \in Nat /\ shown.list <= Len(lists)
  BY DEF ShopTypes, Screens
<1>3. \A k \in 1..Len(ticks) : ticks[k].list \in Nat /\ ticks[k].list # 0 /\ ticks[k].list <= Len(lists)
  BY <1>0 DEF ShopTypes, TickRecords
<1>4. shown'.list <= Len(lists') /\ \A k \in 1..Len(ticks') : ticks'[k].list # 0 /\ ticks'[k].list <= Len(lists')
  BY <1>0, <1>1, <1>2, <1>3
<1> QED
  BY <1>4 DEF ShopTypes

\* One run's record replaced.
LEMMA RunUpdate ==
    ASSUME NEW f \in Seq(RunRecords), Len(f) = Len(runs), NEW g \in 1..Len(runs), NEW r \in RunRecords,
           runs' = [f EXCEPT ![g] = r]
    PROVE  /\ runs' \in Seq(RunRecords) /\ Len(runs') = Len(runs) /\ runs'[g] = r
           /\ \A h \in 1..Len(runs) : h # g => runs'[h] = f[h]
  OBVIOUS

\* One item's mark set.
LEMMA ItemSet ==
    ASSUME ShopTypes, NEW n \in 1..Len(lists), NEW i \in S!Items, NEW m \in S!Marks,
           lists' = [lists EXCEPT ![n].item[i] = m]
    PROVE  /\ lists' \in Seq(ListRecords) /\ Len(lists') = Len(lists)
           /\ \A p \in 1..Len(lists), j \in S!Items :
                 lists'[p].item[j] = IF p = n /\ j = i THEN m ELSE lists[p].item[j]
<1>0. lists \in Seq(ListRecords) /\ Len(lists) \in Nat
  BY DEF ShopTypes
<1>1. PICK l : l = lists[n]
  OBVIOUS
<1>2. l \in ListRecords
  BY <1>1, ShopFacts
<1>3. PICK r : r = [l EXCEPT !.item[i] = m]
  OBVIOUS
<1>4. l.item \in [S!Items -> S!Marks]
  BY <1>2 DEF ListRecords
<1>5. r \in ListRecords /\ r.item = [l.item EXCEPT ![i] = m]
  BY <1>2, <1>3, <1>4 DEF ListRecords
<1>6. lists' = [lists EXCEPT ![n] = r]
  BY <1>0, <1>1, <1>3
<1>7. /\ lists' \in Seq(ListRecords) /\ Len(lists') = Len(lists)
      /\ \A p \in 1..Len(lists) : lists'[p] = IF p = n THEN r ELSE lists[p]
  BY <1>0, <1>5, <1>6
<1>8. \A j \in S!Items : r.item[j] = IF j = i THEN m ELSE l.item[j]
  BY <1>4, <1>5
<1>9. ASSUME NEW p \in 1..Len(lists), NEW j \in S!Items
      PROVE  lists'[p].item[j] = IF p = n /\ j = i THEN m ELSE lists[p].item[j]
  <2>1. CASE p = n
    <3>1. lists'[p] = r /\ lists[p] = l
      BY <1>1, <1>7, <2>1
    <3> QED
      BY <1>8, <2>1, <3>1
  <2>2. CASE p # n
    <3>1. lists'[p] = lists[p]
      BY <1>7, <2>2
    <3> QED
      BY <2>2, <3>1
  <2> QED
    BY <2>1, <2>2
<1> QED
  BY <1>7, <1>9

\* Marks, and the run's record at its end.
LEMMA EndedRun ==
    ASSUME ShopTypes, NEW g \in 1..Len(runs), NEW how \in {"done", "failed"}
    PROVE  /\ S!Ended(g, how) \in RunRecords /\ S!Ended(g, how).at \in Idle
           /\ S!Ended(g, how).old = 0 /\ S!Ended(g, how).new = 0
<1>1. runs[g].mine \in BOOLEAN
  BY ShopFacts DEF RunRecords
<1>2. PICK r : r = S!Ended(g, how)
  OBVIOUS
<1>3. PICK a : a = IF runs[g].mine THEN how ELSE "over"
  OBVIOUS
<1>4. r = [old |-> 0, kept |-> {}, new |-> 0, mine |-> runs[g].mine, quiet |-> TRUE, at |-> a] /\ a \in Idle
  BY <1>2, <1>3 DEF S!Ended, Idle
<1>5. a \in {"read", "off", "new", "fill", "done", "failed", "over"}
  BY <1>4 DEF Idle
<1>6. r \in RunRecords
  BY <1>1, <1>4, <1>5 DEF RunRecords
<1> QED
  BY <1>2, <1>4, <1>6

\* Reading the completed items keeps it.
LEMMA ReadKeeps == ASSUME TripInv, NEW g \in 1..Len(runs), S!ReadCompleted(g) PROVE TripInv'
<1>0. ShopTypes /\ RunsOK /\ runs \in Seq(RunRecords) /\ Len(runs) \in Nat /\ Len(lists) \in Nat
      /\ runs[g] \in RunRecords
  BY ShopFacts DEF TripInv, ShopTypes
<1>1. /\ runs[g].at = "read" /\ UNCHANGED <<lists, trip, shown, ticks, excused>>
  BY DEF S!ReadCompleted
<1>a. PICK same : same = (S!GetCurrent # 0 /\ lists[S!GetCurrent].week = trip.week)
  OBVIOUS
<1>b. PICK o : o = IF same THEN S!GetCurrent ELSE 0
  OBVIOUS
<1>c. PICK k : k = IF same THEN S!Done(lists[S!GetCurrent]) ELSE {}
  OBVIOUS
<1>2. runs' = [runs EXCEPT ![g].at = "off", ![g].old = o, ![g].kept = k]
  BY <1>a, <1>b, <1>c DEF S!ReadCompleted
<1>3. o \in Nat /\ o <= Len(lists)
  BY <1>0, <1>b, CurrentType
<1>4. k \in SUBSET S!Items /\ (o # 0 => k = S!Done(lists[o]))
  BY <1>b, <1>c DEF S!Done
<1>5. PICK q, r : q = runs[g] /\ r = [q EXCEPT !.at = "off", !.old = o, !.kept = k]
  OBVIOUS
<1>6. /\ r \in RunRecords /\ r.at = "off" /\ r.old = o /\ r.kept = k /\ r.new = q.new /\ r.quiet = q.quiet
  BY <1>0, <1>3, <1>4, <1>5 DEF RunRecords
<1>7. runs' = [runs EXCEPT ![g] = r]
  BY <1>0, <1>2, <1>5
<1>8. /\ runs' \in Seq(RunRecords) /\ Len(runs') = Len(runs) /\ runs'[g] = r
      /\ \A h \in 1..Len(runs) : h # g => runs'[h] = runs[h]
  BY <1>0, <1>6, <1>7, RunUpdate
<1>9. ShopTypes'
  <2>1. \A h \in 1..Len(runs) : runs'[h].old <= Len(lists') /\ runs'[h].new <= Len(lists')
    <3> TAKE h \in 1..Len(runs)
    <3>1. runs[h].old <= Len(lists) /\ runs[h].new <= Len(lists) /\ q.new <= Len(lists)
      BY <1>0, <1>5, RunAt
    <3>2. CASE h = g
      BY <1>1, <1>3, <1>6, <1>8, <3>1, <3>2
    <3>3. CASE h # g
      BY <1>1, <1>8, <3>1, <3>3
    <3> QED
      BY <3>2, <3>3
  <2>2. lists' \in Seq(ListRecords) /\ Len(lists) <= Len(lists') /\ trip' \in Trips
    BY <1>0, <1>1 DEF ShopTypes
  <2> QED
    BY <1>0, <1>1, <1>8, <2>1, <2>2, RunTypes
<1>10. MarksOK' /\ TicksOK'
  <2>1. Extends
    BY <1>0, <1>1 DEF Extends
  <2>2. SameTicks
    BY <1>1 DEF SameTicks
  <2> QED
    BY <1>1, <2>1, <2>2, ScreenKept
<1>11. QuietOK(r)'
  BY <1>1, <1>4, <1>6 DEF QuietOK, S!Done
<1>12. RunsOK'
  <2>1. runs[g].at \notin Idle /\ r.at # "fill" /\ (r.quiet => runs[g].quiet)
    BY <1>1, <1>5, <1>6 DEF Idle
  <2>2. \A h \in 1..Len(runs) :
              h # g => /\ runs'[h].at = runs[h].at /\ runs'[h].new = runs[h].new
                       /\ runs'[h].quiet => runs[h].quiet
                       /\ runs[h].at = "fill" => Filling(lists'[runs[h].new])
    BY <1>0, <1>1, <1>8 DEF RunsOK
  <2> QED
    BY <1>8, <1>11, <2>1, <2>2, OneRun
<1> QED
  BY <1>9, <1>10, <1>12 DEF TripInv

\* Deactivating the lists keeps it.
LEMMA OffKeeps == ASSUME TripInv, NEW g \in 1..Len(runs), S!DeactivateShoppingLists(g) PROVE TripInv'
<1>0. ShopTypes /\ RunsOK /\ Len(runs) \in Nat /\ Len(lists) \in Nat /\ runs[g] \in RunRecords
      /\ DOMAIN lists = 1..Len(lists) /\ \A n \in 1..Len(lists) : lists[n] \in ListRecords
  BY ShopFacts DEF TripInv
<1>1. /\ runs[g].at = "off" /\ runs' = [S!Disturb(g) EXCEPT ![g].at = "new"] /\ UNCHANGED <<trip, shown, ticks, excused>>
      /\ lists' = [n \in 1..Len(lists) |-> [lists[n] EXCEPT !.active = FALSE]]
  BY <1>0 DEF S!DeactivateShoppingLists
<1>2. \A n \in 1..Len(lists) : lists'[n] \in ListRecords /\ lists'[n].item = lists[n].item
  <2> TAKE n \in 1..Len(lists)
  <2>1. PICK l, r : l = lists[n] /\ r = lists'[n]
    OBVIOUS
  <2>2. l \in ListRecords /\ r = [l EXCEPT !.active = FALSE]
    BY <1>0, <1>1, <2>1
  <2>3. r \in ListRecords /\ r.item = l.item
    BY <2>2 DEF ListRecords
  <2> QED
    BY <2>1, <2>3
<1>3. lists' \in Seq(ListRecords) /\ Len(lists') = Len(lists)
  <2>1. lists' \in [1..Len(lists) -> ListRecords]
    BY <1>1, <1>2
  <2> QED
    BY <1>0, <2>1
<1>4. PICK d : d = S!Disturb(g)
  OBVIOUS
<1>5. /\ d \in Seq(RunRecords) /\ Len(d) = Len(runs) /\ d[g] = runs[g]
  BY <1>0, <1>4, Disturbed
<1>6. PICK q, r : q = runs[g] /\ r = [q EXCEPT !.at = "new"]
  OBVIOUS
<1>7. /\ r \in RunRecords /\ r.at = "new" /\ r.old = q.old /\ r.kept = q.kept /\ r.new = q.new /\ r.quiet = q.quiet
  BY <1>0, <1>6 DEF RunRecords
<1>8. runs' = [d EXCEPT ![g] = r]
  BY <1>0, <1>1, <1>4, <1>5, <1>6
<1>9. /\ runs' \in Seq(RunRecords) /\ Len(runs') = Len(runs) /\ runs'[g] = r
      /\ \A h \in 1..Len(runs) : h # g => runs'[h] = d[h]
  BY <1>5, <1>7, <1>8, RunUpdate
<1>10. ShopTypes'
  <2>1. \A h \in 1..Len(runs) : runs'[h].old <= Len(lists') /\ runs'[h].new <= Len(lists')
    <3> TAKE h \in 1..Len(runs)
    <3>1. runs[h].old <= Len(lists') /\ runs[h].new <= Len(lists') /\ q.new <= Len(lists') /\ q.old <= Len(lists')
      BY <1>0, <1>3, <1>6, RunAt
    <3>2. CASE h = g
      BY <1>7, <1>9, <3>1, <3>2
    <3>3. CASE h # g
      <4>1. runs'[h] = d[h]
        BY <1>9, <3>3
      <4>2. d[h].old = runs[h].old /\ d[h].new = runs[h].new
        BY <1>0, <1>4, DisturbedAt
      <4> QED
        BY <3>1, <4>1, <4>2
    <3> QED
      BY <3>2, <3>3
  <2>2. Len(lists) <= Len(lists') /\ trip' \in Trips
    BY <1>0, <1>1, <1>3 DEF ShopTypes
  <2> QED
    BY <1>0, <1>1, <1>3, <1>9, <2>1, <2>2, RunTypes
<1>11. MarksOK' /\ TicksOK'
  <2>1. Extends
    BY <1>0, <1>2, <1>3 DEF Extends
  <2>2. SameTicks
    BY <1>1 DEF SameTicks
  <2> QED
    BY <1>1, <2>1, <2>2, ScreenKept
<1>12. r.quiet => QuietOK(r)'
  <2> SUFFICES ASSUME r.quiet, r.old # 0 PROVE r.kept = S!Done(lists'[r.old])
    BY <1>7 DEF QuietOK, S!Done
  <2>1. r.old \in 1..Len(lists)
    BY <1>0, <1>6, <1>7 DEF ShopTypes, RunRecords
  <2>2. q.quiet /\ q.at = "off" /\ q.at \notin Idle
    BY <1>1, <1>6, <1>7 DEF Idle
  <2>3. q.kept = S!Done(lists[q.old])
    <3>1. QuietOK(runs[g])
      BY <1>0, <1>6, <2>2, QuietRun
    <3> QED
      BY <1>6, <1>7, <2>2, <3>1 DEF QuietOK
  <2> QED
    BY <1>2, <1>7, <2>1, <2>3 DEF S!Done
<1>13. RunsOK'
  <2>1. runs[g].at \notin Idle /\ r.at # "fill" /\ (r.quiet => runs[g].quiet)
    BY <1>1, <1>6, <1>7 DEF Idle
  <2>2. ASSUME NEW h \in 1..Len(runs), h # g
        PROVE  /\ runs'[h].at = runs[h].at /\ runs'[h].new = runs[h].new
               /\ runs'[h].quiet => runs[h].quiet
               /\ runs[h].at = "fill" => Filling(lists'[runs[h].new])
    <3>1. runs[h].at = "fill" => runs[h].new \in 1..Len(lists) /\ Filling(lists[runs[h].new])
      BY <1>0, FillingAt
    <3>2. runs[h].at = "fill" => Filling(lists'[runs[h].new])
      BY <1>2, <3>1 DEF Filling
    <3>3. runs'[h] = d[h]
      BY <1>9, <2>2
    <3>4. d[h].at = runs[h].at /\ d[h].new = runs[h].new /\ (d[h].quiet => runs[h].quiet)
      BY <1>0, <1>4, DisturbedAt
    <3> QED
      BY <3>2, <3>3, <3>4
  <2> QED
    BY <1>9, <1>12, <2>1, <2>2, OneRun
<1> QED
  BY <1>10, <1>11, <1>13 DEF TripInv

\* The runs that a step of run g starts from.
Base(d, g) == d = runs \/ d = S!Disturb(g)

\* A step of run g on the server keeps it.
LEMMA ServerStep ==
    ASSUME TripInv, NEW g \in 1..Len(runs), runs[g].at \notin Idle,
           NEW d, Base(d, g), NEW r \in RunRecords, runs' = [d EXCEPT ![g] = r],
           lists' \in Seq(ListRecords), Extends, r.old <= Len(lists'), r.new <= Len(lists'),
           UNCHANGED <<trip, shown, ticks, excused>>,
           \A h \in 1..Len(runs) : h # g /\ runs[h].at = "fill" => Filling(lists'[runs[h].new]),
           r.at = "fill" => /\ r.new # 0 /\ Filling(lists'[r.new])
                            /\ \A h \in 1..Len(runs) : h # g /\ runs[h].at = "fill" => runs[h].new # r.new,
           r.quiet /\ r.at \notin Idle => runs[g].quiet /\ QuietOK(r)'
    PROVE  TripInv'
<1>0. ShopTypes /\ RunsOK /\ runs \in Seq(RunRecords) /\ Len(lists) \in Nat
  BY ShopFacts DEF TripInv, ShopTypes
<1>1. d \in Seq(RunRecords) /\ Len(d) = Len(runs)
  BY <1>0, Disturbed DEF Base
<1>2. ASSUME NEW h \in 1..Len(runs)
      PROVE  d[h].at = runs[h].at /\ d[h].new = runs[h].new /\ d[h].old = runs[h].old /\ (d[h].quiet => runs[h].quiet)
  <2>1. CASE d = runs
    BY <2>1
  <2>2. CASE d = S!Disturb(g)
    BY <1>0, <2>2, DisturbedAt
  <2> QED
    BY <2>1, <2>2 DEF Base
<1>3. /\ runs' \in Seq(RunRecords) /\ Len(runs') = Len(runs) /\ runs'[g] = r
      /\ \A h \in 1..Len(runs) : h # g => runs'[h] = d[h]
  BY <1>1, RunUpdate
<1>4. ShopTypes'
  <2>0. Len(lists') \in Nat /\ Len(lists) <= Len(lists')
    BY DEF Extends
  <2>1. \A h \in 1..Len(runs) : runs'[h].old <= Len(lists') /\ runs'[h].new <= Len(lists')
    <3> TAKE h \in 1..Len(runs)
    <3>1. /\ runs[h].old \in Nat /\ runs[h].new \in Nat /\ runs[h].old <= Len(lists) /\ runs[h].new <= Len(lists)
      BY <1>0, RunAt
    <3>2. CASE h = g
      BY <1>3, <3>2
    <3>3. CASE h # g
      <4>1. runs'[h].old = runs[h].old /\ runs'[h].new = runs[h].new
        BY <1>2, <1>3, <3>3
      <4> QED
        BY <1>0, <2>0, <3>1, <4>1
    <3> QED
      BY <3>2, <3>3
  <2>2. trip' \in Trips
    BY <1>0 DEF ShopTypes
  <2> QED
    BY <1>0, <1>3, <2>0, <2>1, <2>2, RunTypes
<1>5. MarksOK' /\ TicksOK'
  <2>1. SameTicks
    BY DEF SameTicks
  <2> QED
    BY <2>1, ScreenKept
<1>6. RunsOK'
  <2>1. \A h \in 1..Len(runs) :
              h # g => /\ runs'[h].at = runs[h].at /\ runs'[h].new = runs[h].new
                       /\ runs'[h].quiet => runs[h].quiet
                       /\ runs[h].at = "fill" => Filling(lists'[runs[h].new])
    BY <1>2, <1>3
  <2> QED
    BY <1>3, <2>1, OneRun
<1> QED
  BY <1>4, <1>5, <1>6 DEF TripInv

\* Creating the new list keeps it.
LEMMA CreateKeeps == ASSUME TripInv, NEW g \in 1..Len(runs), S!CreateShoppingList(g) PROVE TripInv'
<1>0. ShopTypes /\ RunsOK /\ lists \in Seq(ListRecords) /\ Len(runs) \in Nat /\ runs[g] \in RunRecords
  BY ShopFacts DEF TripInv, ShopTypes
<1>1. /\ runs[g].at = "new" /\ runs' = [S!Disturb(g) EXCEPT ![g].at = "fill", ![g].new = Len(lists) + 1]
      /\ UNCHANGED <<trip, shown, ticks, excused>>
  BY DEF S!CreateShoppingList
<1>2. PICK l : l = [week |-> trip.week, active |-> TRUE, item |-> S!Empty]
  OBVIOUS
<1>3. l \in ListRecords /\ \A i \in S!Items : l.item[i] = "absent"
  <2>1. S!Empty \in [S!Items -> S!Marks] /\ \A i \in S!Items : S!Empty[i] = "absent"
    BY DEF S!Empty, S!Marks
  <2>2. trip.week \in S!Weeks
    BY <1>0 DEF ShopTypes, Trips
  <2> QED
    BY <1>2, <2>1, <2>2 DEF ListRecords
<1>4. PICK n \in Nat : n = Len(lists)
  BY <1>0
<1>5. lists' = Append(lists, l)
  BY <1>2 DEF S!CreateShoppingList
<1>6. /\ lists' \in Seq(ListRecords) /\ Len(lists') = n + 1 /\ lists'[n + 1] = l
      /\ \A p \in 1..n : lists'[p] = lists[p]
  BY <1>0, <1>3, <1>4, <1>5
<1>7. PICK d : d = S!Disturb(g)
  OBVIOUS
<1>8. d \in Seq(RunRecords) /\ Len(d) = Len(runs) /\ d[g] = runs[g]
  BY <1>0, <1>7, Disturbed
<1>9. PICK q : q = runs[g]
  OBVIOUS
<1>a. PICK m \in Nat : m = n + 1
  OBVIOUS
<1>10. PICK r : r = [q EXCEPT !.at = "fill", !.new = m]
  OBVIOUS
<1>11. /\ r \in RunRecords /\ r.at = "fill" /\ r.old = q.old /\ r.kept = q.kept /\ r.new = m /\ r.quiet = q.quiet
  BY <1>0, <1>9, <1>10 DEF RunRecords
<1>12. runs' = [d EXCEPT ![g] = r]
  BY <1>1, <1>4, <1>7, <1>8, <1>9, <1>10, <1>a
<1>13. q.old \in Nat /\ q.old <= n
  BY <1>0, <1>4, <1>9, RunAt
<1>14. Extends
  BY <1>4, <1>6 DEF Extends
<1>15. r.old <= Len(lists') /\ r.new <= Len(lists')
  BY <1>6, <1>11, <1>13, <1>a
<1>16. ASSUME NEW h \in 1..Len(runs), h # g, runs[h].at = "fill"
       PROVE  Filling(lists'[runs[h].new]) /\ runs[h].new # r.new
  <2>1. runs[h].new \in 1..n /\ Filling(lists[runs[h].new])
    BY <1>0, <1>4, <1>16, FillingAt
  <2> QED
    BY <1>6, <1>11, <1>a, <2>1
<1>17. r.new # 0 /\ Filling(lists'[r.new])
  <2>1. NItems \in S!Items
    BY BoundsAssumption DEF S!Items
  <2> QED
    BY <1>3, <1>6, <1>11, <1>a, <2>1 DEF Filling
<1>18. runs[g].at \notin Idle
  BY <1>1 DEF Idle
<1>19. ASSUME r.quiet PROVE runs[g].quiet /\ QuietOK(r)'
  <2>1. runs[g].quiet
    BY <1>9, <1>11, <1>19
  <2>2. QuietOK(runs[g])
    BY <1>0, <1>18, <2>1, QuietRun
  <2>3. q.old # 0 => q.kept = S!Done(lists[q.old])
    BY <1>1, <1>9, <2>2 DEF QuietOK
  <2>4. r.old # 0 => r.kept = S!Done(lists'[r.old])
    <3> SUFFICES ASSUME r.old # 0 PROVE r.kept = S!Done(lists'[r.old])
      OBVIOUS
    <3>1. q.old \in 1..n
      BY <1>11, <1>13
    <3> QED
      BY <1>6, <1>11, <2>3, <3>1
  <2>5. r.old # r.new /\ \A i \in S!Items : lists'[r.new].item[i] = "absent"
    BY <1>3, <1>6, <1>11, <1>13, <1>a
  <2> QED
    BY <2>1, <2>4, <2>5 DEF QuietOK, S!Done
<1>20. /\ Base(d, g) /\ (r.at = "fill" => /\ r.new # 0 /\ Filling(lists'[r.new])
                                         /\ \A h \in 1..Len(runs) : h # g /\ runs[h].at = "fill" => runs[h].new # r.new)
       /\ r.quiet /\ r.at \notin Idle => runs[g].quiet /\ QuietOK(r)'
       /\ \A h \in 1..Len(runs) : h # g /\ runs[h].at = "fill" => Filling(lists'[runs[h].new])
  BY <1>7, <1>16, <1>17, <1>19 DEF Base
<1>21. UNCHANGED <<trip, shown, ticks, excused>> /\ lists' \in Seq(ListRecords) /\ r \in RunRecords
  BY <1>1, <1>6, <1>11
<1> QED
  BY <1>12, <1>14, <1>15, <1>18, <1>20, <1>21, ServerStep

\* A statement of Generate that fails keeps it.
LEMMA FailKeeps == ASSUME TripInv, NEW g \in 1..Len(runs), S!GenerateFails(g) PROVE TripInv'
<1>0. ShopTypes /\ RunsOK /\ lists \in Seq(ListRecords) /\ Len(lists) \in Nat
  BY ShopFacts DEF TripInv, ShopTypes
<1>1. /\ runs[g].at \notin Idle /\ runs' = [runs EXCEPT ![g] = S!Ended(g, "failed")]
      /\ UNCHANGED <<lists, trip, shown, ticks, excused>>
  BY DEF S!GenerateFails, Idle
<1>2. PICK r : r = S!Ended(g, "failed")
  OBVIOUS
<1>3. r \in RunRecords /\ r.at \in Idle /\ r.old = 0 /\ r.new = 0
  BY <1>0, <1>2, EndedRun
<1>4. Extends /\ r.old <= Len(lists') /\ r.new <= Len(lists') /\ r.at # "fill"
  BY <1>0, <1>1, <1>3 DEF Extends, Idle
<1>5. \A h \in 1..Len(runs) : h # g /\ runs[h].at = "fill" => Filling(lists'[runs[h].new])
  BY <1>0, <1>1, FillingAt
<1>a. PICK d : d = runs
  OBVIOUS
<1>6. lists' \in Seq(ListRecords) /\ runs' = [d EXCEPT ![g] = r]
  BY <1>0, <1>1, <1>2, <1>a
<1>7. /\ Base(d, g) /\ (r.at = "fill" => /\ r.new # 0 /\ Filling(lists'[r.new])
                                           /\ \A h \in 1..Len(runs) : h # g /\ runs[h].at = "fill" => runs[h].new # r.new)
      /\ r.quiet /\ r.at \notin Idle => runs[g].quiet /\ QuietOK(r)'
  BY <1>3, <1>4, <1>a DEF Base
<1>8. runs[g].at \notin Idle /\ UNCHANGED <<trip, shown, ticks, excused>>
  BY <1>1
<1> QED
  BY <1>3, <1>4, <1>5, <1>6, <1>7, <1>8, ServerStep

\* Mark is a mark of an item there is.
LEMMA MarkType == \A b : S!Mark(b) \in S!Marks /\ S!Mark(b) # "absent"
  BY DEF S!Mark, S!Marks

\* What an insert finds: the first missing item of the run's list.
LEMMA FirstMissing ==
    ASSUME TripInv, NEW g \in 1..Len(runs), S!InsertShoppingListItem(g)
    PROVE  \E n \in 1..Len(lists), i \in S!Items :
              /\ n = runs[g].new /\ lists[n].item[i] = "absent"
              /\ \A j \in S!Items : lists[n].item[j] = "absent" => i <= j
              /\ lists' = [lists EXCEPT ![n].item[i] = S!Mark(i \in runs[g].kept)]
              /\ runs' = [runs EXCEPT ![g] = IF i = NItems THEN S!Ended(g, "done") ELSE @]
<1>0. ShopTypes /\ RunsOK
  BY DEF TripInv
<1>1. runs[g].at = "fill" /\ S!Missing(g) # {}
  BY DEF S!InsertShoppingListItem
<1>2. runs[g].new \in 1..Len(lists)
  BY <1>0, <1>1, FillingAt
<1>3. S!Missing(g) \subseteq Nat
  BY BoundsAssumption DEF S!Missing, S!Items
<1>4. PICK i : i = CHOOSE j \in S!Missing(g) : \A o \in S!Missing(g) : j <= o
  OBVIOUS
<1>5. i \in S!Missing(g) /\ \A o \in S!Missing(g) : i <= o
  BY <1>1, <1>3, <1>4, Lowest
<1>6. PICK n : n = runs[g].new
  OBVIOUS
<1>7. /\ lists' = [lists EXCEPT ![n].item[i] = S!Mark(i \in runs[g].kept)]
      /\ runs' = [runs EXCEPT ![g] = IF i = NItems THEN S!Ended(g, "done") ELSE @]
  BY <1>4, <1>6 DEF S!InsertShoppingListItem
<1>8. i \in S!Items /\ lists[n].item[i] = "absent" /\ \A j \in S!Items : lists[n].item[j] = "absent" => i <= j
  BY <1>5, <1>6 DEF S!Missing
<1> QED
  BY <1>2, <1>6, <1>7, <1>8

\* An insert keeps it.
LEMMA InsertKeeps == ASSUME TripInv, NEW g \in 1..Len(runs), S!InsertShoppingListItem(g) PROVE TripInv'
<1>0. ShopTypes /\ RunsOK /\ runs \in Seq(RunRecords) /\ Len(lists) \in Nat /\ runs[g] \in RunRecords
  BY ShopFacts DEF TripInv, ShopTypes
<1>1. runs[g].at = "fill" /\ runs[g].at \notin Idle /\ UNCHANGED <<trip, shown, ticks, excused>>
  BY DEF S!InsertShoppingListItem, Idle
<1>2. PICK n \in 1..Len(lists), i \in S!Items :
              /\ n = runs[g].new /\ lists[n].item[i] = "absent"
              /\ \A j \in S!Items : lists[n].item[j] = "absent" => i <= j
              /\ lists' = [lists EXCEPT ![n].item[i] = S!Mark(i \in runs[g].kept)]
              /\ runs' = [runs EXCEPT ![g] = IF i = NItems THEN S!Ended(g, "done") ELSE @]
  BY FirstMissing
<1>3. PICK m : m = S!Mark(i \in runs[g].kept)
  OBVIOUS
<1>4. m \in S!Marks /\ m # "absent"
  BY <1>3, MarkType
<1>5. /\ lists' \in Seq(ListRecords) /\ Len(lists') = Len(lists)
      /\ \A p \in 1..Len(lists), j \in S!Items :
            lists'[p].item[j] = IF p = n /\ j = i THEN m ELSE lists[p].item[j]
  <2>1. lists' = [lists EXCEPT ![n].item[i] = m]
    BY <1>2, <1>3
  <2>2. m \in S!Marks /\ ShopTypes
    BY <1>0, <1>4
  <2> QED
    BY <2>1, <2>2, ItemSet
<1>6. Extends
  BY <1>0, <1>2, <1>5 DEF Extends
<1>7. Filling(lists[n])
  BY <1>0, <1>1, <1>2, FillingAt
<1>8. \A h \in 1..Len(runs) : h # g /\ runs[h].at = "fill" => runs[h].new # n
  BY <1>0, <1>1, <1>2 DEF RunsOK
<1>9. \A p \in 1..Len(lists) : p # n /\ Filling(lists[p]) => Filling(lists'[p])
  <2>1. NItems \in S!Items
    BY BoundsAssumption DEF S!Items
  <2> QED
    BY <1>5, <2>1 DEF Filling
<1>10. ASSUME NEW h \in 1..Len(runs), h # g, runs[h].at = "fill" PROVE Filling(lists'[runs[h].new])
  <2>1. runs[h].new \in 1..Len(lists) /\ Filling(lists[runs[h].new])
    BY <1>0, <1>10, FillingAt
  <2> QED
    BY <1>8, <1>9, <1>10, <2>1
<1>11. PICK d : d = runs
  OBVIOUS
<1>12. CASE i = NItems
  <2>1. PICK r : r = S!Ended(g, "done")
    OBVIOUS
  <2>2. r \in RunRecords /\ r.at \in Idle /\ r.old = 0 /\ r.new = 0
    BY <1>0, <2>1, EndedRun
  <2>3. r.old <= Len(lists') /\ r.new <= Len(lists') /\ r.at # "fill" /\ runs' = [d EXCEPT ![g] = r]
    BY <1>0, <1>2, <1>5, <1>11, <1>12, <2>1, <2>2 DEF Idle
  <2>4. /\ Base(d, g) /\ (r.at = "fill" => /\ r.new # 0 /\ Filling(lists'[r.new])
                                          /\ \A h \in 1..Len(runs) : h # g /\ runs[h].at = "fill" => runs[h].new # r.new)
        /\ r.quiet /\ r.at \notin Idle => runs[g].quiet /\ QuietOK(r)'
        /\ \A h \in 1..Len(runs) : h # g /\ runs[h].at = "fill" => Filling(lists'[runs[h].new])
    BY <1>10, <1>11, <2>2, <2>3 DEF Base
  <2> QED
    BY <1>1, <1>5, <1>6, <2>2, <2>3, <2>4, ServerStep
<1>13. CASE i # NItems
  <2>1. PICK r : r = runs[g]
    OBVIOUS
  <2>2. r \in RunRecords /\ r.at = "fill" /\ r.new = n /\ runs' = [d EXCEPT ![g] = r]
    BY <1>0, <1>1, <1>2, <1>11, <1>13, <2>1
  <2>3. r.old <= Len(lists') /\ r.new <= Len(lists')
    BY <1>0, <1>5, <2>1, RunAt
  <2>4. n # 0 /\ Filling(lists'[n])
    <3>1. NItems \in S!Items /\ \A j \in S!Items : j \in Nat
      BY BoundsAssumption DEF S!Items
    <3>2. lists'[n].item[NItems] = "absent"
      BY <1>5, <1>7, <1>13, <3>1 DEF Filling
    <3>3. ASSUME NEW j \in S!Items, NEW k \in S!Items, j <= k, lists'[n].item[j] = "absent"
          PROVE  lists'[n].item[k] = "absent"
      <4>1. j # i /\ lists[n].item[j] = "absent"
        BY <1>4, <1>5, <3>3
      <4>2. lists[n].item[k] = "absent"
        BY <1>7, <3>3, <4>1 DEF Filling
      <4>3. i <= j
        BY <1>2, <4>1
      <4>4. k # i
        BY <3>1, <3>3, <4>1, <4>3
      <4> QED
        BY <1>5, <4>2, <4>4
    <3> QED
      BY <3>2, <3>3 DEF Filling
  <2>5. ASSUME r.quiet PROVE runs[g].quiet /\ QuietOK(r)'
    <3>1. runs[g].quiet /\ QuietOK(r)
      BY <1>0, <1>1, <2>1, <2>5, QuietRun
    <3>2. r.old # n
      BY <2>2, <3>1 DEF QuietOK
    <3>3. r.old # 0 => r.kept = S!Done(lists'[r.old])
      <4> SUFFICES ASSUME r.old # 0 PROVE r.kept = S!Done(lists'[r.old])
        OBVIOUS
      <4>1. r.old \in 1..Len(lists)
        BY <1>0, <2>1, RunAt
      <4>2. r.kept = S!Done(lists[r.old])
        BY <2>2, <3>1 DEF QuietOK
      <4> QED
        BY <1>5, <3>2, <4>1, <4>2 DEF S!Done
    <3>4. \A j \in S!Items : lists'[n].item[j] # "absent" => (lists'[n].item[j] = "done" <=> j \in r.kept)
      <4> TAKE j \in S!Items
      <4>1. CASE j = i
        <5>1. lists'[n].item[j] = m
          BY <1>5, <4>1
        <5>2. m = "done" <=> j \in r.kept
          BY <1>3, <2>1, <4>1 DEF S!Mark
        <5> QED
          BY <5>1, <5>2
      <4>2. CASE j # i
        <5>1. lists'[n].item[j] = lists[n].item[j]
          BY <1>5, <4>2
        <5> QED
          BY <2>2, <3>1, <5>1 DEF QuietOK
      <4> QED
        BY <4>1, <4>2
    <3> QED
      BY <2>2, <3>1, <3>2, <3>3, <3>4 DEF QuietOK, S!Done
  <2>6. /\ Base(d, g) /\ (r.at = "fill" => /\ r.new # 0 /\ Filling(lists'[r.new])
                                          /\ \A h \in 1..Len(runs) : h # g /\ runs[h].at = "fill" => runs[h].new # r.new)
        /\ r.quiet /\ r.at \notin Idle => runs[g].quiet /\ QuietOK(r)'
        /\ \A h \in 1..Len(runs) : h # g /\ runs[h].at = "fill" => Filling(lists'[runs[h].new])
    BY <1>8, <1>10, <1>11, <2>2, <2>4, <2>5 DEF Base
  <2> QED
    BY <1>1, <1>5, <1>6, <2>2, <2>3, <2>6, ServerStep
<1> QED
  BY <1>12, <1>13

\* The device's trip record.
LEMMA TripTypes ==
    ASSUME NEW t \in Trips
    PROVE  /\ [t EXCEPT !.gen = "loading"] \in Trips
           /\ [t EXCEPT !.gen = "ok", !.leaves = TRUE] \in Trips
           /\ [t EXCEPT !.gen = "error", !.idles = @ + 1] \in Trips
           /\ t.idles > 0 => [t EXCEPT !.idles = @ - 1, !.gen = "idle"] \in Trips
           /\ [t EXCEPT !.page = "shopping", !.gen = "idle", !.idles = 0, !.leaves = FALSE] \in Trips
           /\ [t EXCEPT !.page = IF @ = "meals" THEN "shopping" ELSE "meals", !.gen = "idle", !.idles = 0] \in Trips
<1>1. t.idles + 1 \in Nat /\ (t.idles > 0 => t.idles - 1 \in Nat)
  BY DEF Trips
<1>2. PICK m \in Nat : m = t.idles + 1
  BY <1>1
<1>3. [t EXCEPT !.gen = "error", !.idles = @ + 1] \in Trips
  <2>1. [t EXCEPT !.gen = "error", !.idles = @ + 1] = [t EXCEPT !.gen = "error", !.idles = m]
    BY <1>2 DEF Trips
  <2>2. [t EXCEPT !.gen = "error", !.idles = m] \in Trips
    BY DEF Trips
  <2> QED
    BY <2>1, <2>2
<1>4. ASSUME t.idles > 0 PROVE [t EXCEPT !.idles = @ - 1, !.gen = "idle"] \in Trips
  <2>1. PICK p \in Nat : p = t.idles - 1
    BY <1>1, <1>4
  <2>2. [t EXCEPT !.idles = @ - 1, !.gen = "idle"] = [t EXCEPT !.idles = p, !.gen = "idle"]
    BY <2>1 DEF Trips
  <2>3. [t EXCEPT !.idles = p, !.gen = "idle"] \in Trips
    BY DEF Trips
  <2> QED
    BY <2>2, <2>3
<1>5. [t EXCEPT !.page = IF @ = "meals" THEN "shopping" ELSE "meals", !.gen = "idle", !.idles = 0] \in Trips
  BY DEF Trips
<1>6. /\ [t EXCEPT !.gen = "loading"] \in Trips
      /\ [t EXCEPT !.gen = "ok", !.leaves = TRUE] \in Trips
      /\ [t EXCEPT !.page = "shopping", !.gen = "idle", !.idles = 0, !.leaves = FALSE] \in Trips
  BY DEF Trips
<1> QED
  BY <1>3, <1>4, <1>5, <1>6

\* The runs and the lists left alone.
LEMMA RunsStay == ASSUME RunsOK, UNCHANGED <<lists, runs>> PROVE RunsOK'
<1>1. runs' = runs /\ lists' = lists
  OBVIOUS
<1> QED
  BY <1>1 DEF RunsOK, QuietOK, Filling, S!Done

\* The answer of a run keeps it.
LEMMA GenerateAnsweredKeeps == ASSUME TripInv, NEW g \in 1..Len(runs), S!GenerateAnswered(g) PROVE TripInv'
<1>0. ShopTypes /\ RunsOK /\ runs \in Seq(RunRecords) /\ lists \in Seq(ListRecords) /\ Len(lists) \in Nat
      /\ runs[g] \in RunRecords /\ trip \in Trips
  BY ShopFacts DEF TripInv, ShopTypes
<1>1. /\ runs[g].at \in Idle /\ runs' = [runs EXCEPT ![g].at = "over"] /\ UNCHANGED <<lists, shown, ticks, excused>>
  BY DEF S!GenerateAnswered, Idle
<1>2. trip' \in Trips
  BY <1>0, TripTypes DEF S!GenerateAnswered
<1>3. PICK q : q = runs[g]
  OBVIOUS
<1>4. PICK r : r = [q EXCEPT !.at = "over"]
  OBVIOUS
<1>5. r \in RunRecords /\ r.at = "over" /\ r.old = q.old /\ r.new = q.new
  BY <1>0, <1>3, <1>4 DEF RunRecords
<1>6. runs' = [runs EXCEPT ![g] = r]
  BY <1>0, <1>1, <1>3, <1>4
<1>7. /\ runs' \in Seq(RunRecords) /\ Len(runs') = Len(runs) /\ runs'[g] = r
      /\ \A h \in 1..Len(runs) : h # g => runs'[h] = runs[h]
  BY <1>0, <1>5, <1>6, RunUpdate
<1>8. ShopTypes'
  <2>1. ASSUME NEW h \in 1..Len(runs) PROVE runs'[h].old <= Len(lists') /\ runs'[h].new <= Len(lists')
    <3>1. runs[h].old <= Len(lists) /\ runs[h].new <= Len(lists)
      BY <1>0, RunAt
    <3>2. runs'[h].old = runs[h].old /\ runs'[h].new = runs[h].new
      BY <1>3, <1>5, <1>7
    <3> QED
      BY <1>1, <3>1, <3>2
  <2>2. lists' \in Seq(ListRecords) /\ Len(lists) <= Len(lists')
    BY <1>0, <1>1
  <2>3. UNCHANGED <<shown, ticks, excused>>
    BY <1>1
  <2> QED
    BY <1>0, <1>2, <1>7, <2>1, <2>2, <2>3, RunTypes
<1>9. MarksOK' /\ TicksOK'
  <2>1. Extends /\ SameTicks
    BY <1>0, <1>1 DEF Extends, SameTicks
  <2> QED
    BY <1>1, <2>1, ScreenKept
<1>10. RunsOK'
  <2>1. ASSUME NEW h \in 1..Len(runs), runs'[h].at \notin Idle PROVE h # g /\ runs'[h] = runs[h]
    BY <1>5, <1>7, <2>1 DEF Idle
  <2>2. ASSUME NEW h \in 1..Len(runs) PROVE runs[h].at \in Idle => runs'[h].at \in Idle
    BY <1>5, <1>7 DEF Idle
  <2>3. "fill" \notin Idle /\ lists' = lists
    BY <1>1 DEF Idle
  <2>4. \A h \in 1..Len(runs') : runs'[h].at = "fill" => runs'[h].new # 0 /\ Filling(lists[runs[h].new])'
    <3> SUFFICES ASSUME NEW h \in 1..Len(runs), runs'[h].at = "fill" PROVE runs'[h].new # 0 /\ Filling(lists'[runs'[h].new])
      BY <1>7 DEF Filling
    <3> QED
      BY <1>0, <2>1, <2>3 DEF RunsOK
  <2>5. \A f, h \in 1..Len(runs') : runs'[f].at = "fill" /\ runs'[h].at = "fill" /\ runs'[f].new = runs'[h].new => f = h
    BY <1>0, <1>7, <2>1, <2>3 DEF RunsOK
  <2>6. ASSUME NEW h \in 1..Len(runs'), runs'[h].quiet, runs'[h].at \notin Idle
        PROVE  QuietOK(runs[h])' /\ \A f \in 1..Len(runs') : f # h => runs'[f].at \in Idle
    <3>1. h \in 1..Len(runs) /\ runs'[h] = runs[h]
      BY <1>7, <2>1, <2>6
    <3>2. QuietOK(runs[h]) /\ \A f \in 1..Len(runs) : f # h => runs[f].at \in Idle
      BY <1>0, <2>6, <3>1, QuietRun
    <3>3. QuietOK(runs[h])'
      BY <2>3, <3>1, <3>2 DEF QuietOK, S!Done
    <3> QED
      BY <1>7, <2>2, <3>2, <3>3
  <2> QED
    BY <2>4, <2>5, <2>6 DEF RunsOK
<1> QED
  BY <1>8, <1>9, <1>10 DEF TripInv

\* Once every run under way has been disturbed, and no item has gone or come, the runs are right.
LEMMA DisturbKeeps ==
    ASSUME ShopTypes, RunsOK, NEW d, d = S!Disturb(0), Len(lists') = Len(lists),
           \A n \in 1..Len(lists), i \in S!Items : lists'[n].item[i] = "absent" <=> lists[n].item[i] = "absent"
    PROVE  /\ \A g \in 1..Len(runs) : d[g].at = "fill" => d[g].new # 0 /\ Filling(lists'[d[g].new])
           /\ \A g, h \in 1..Len(runs) : d[g].at = "fill" /\ d[h].at = "fill" /\ d[g].new = d[h].new => g = h
           /\ \A g \in 1..Len(runs) : d[g].quiet => d[g].at \in Idle
           /\ \A g \in 1..Len(runs) : d[g].old <= Len(lists) /\ d[g].new <= Len(lists)
<1>0. NItems \in S!Items
  BY BoundsAssumption DEF S!Items
<1>1. ASSUME NEW g \in 1..Len(runs)
      PROVE  /\ d[g].at = runs[g].at /\ d[g].new = runs[g].new /\ d[g].old = runs[g].old
             /\ d[g].quiet => d[g].at \in Idle
  <2>1. g # 0
    OBVIOUS
  <2> QED
    BY <2>1, DisturbedAt
<1>2. ASSUME NEW g \in 1..Len(runs), d[g].at = "fill" PROVE d[g].new # 0 /\ Filling(lists'[d[g].new])
  <2>1. runs[g].new \in 1..Len(lists) /\ Filling(lists[runs[g].new])
    BY <1>1, <1>2, FillingAt
  <2>2. Filling(lists'[runs[g].new])
    BY <1>0, <2>1 DEF Filling
  <2> QED
    BY <1>1, <2>1, <2>2
<1>3. \A g, h \in 1..Len(runs) : d[g].at = "fill" /\ d[h].at = "fill" /\ d[g].new = d[h].new => g = h
  BY <1>1 DEF RunsOK
<1>4. \A g \in 1..Len(runs) : d[g].old <= Len(lists) /\ d[g].new <= Len(lists)
  BY <1>1, RunAt
<1> QED
  BY <1>1, <1>2, <1>3, <1>4

\* The same, as the runs after a step.
LEMMA DisturbedRuns ==
    ASSUME ShopTypes, RunsOK, runs' = S!Disturb(0), Len(lists') = Len(lists),
           \A n \in 1..Len(lists), i \in S!Items : lists'[n].item[i] = "absent" <=> lists[n].item[i] = "absent"
    PROVE  /\ RunsOK' /\ runs' \in Seq(RunRecords) /\ Len(runs') = Len(runs)
           /\ \A g \in 1..Len(runs') : runs'[g].old <= Len(lists') /\ runs'[g].new <= Len(lists')
<1>1. PICK d : d = S!Disturb(0)
  OBVIOUS
<1>2. d \in Seq(RunRecords) /\ Len(d) = Len(runs) /\ runs' = d
  BY <1>1, Disturbed
<1>3. /\ \A g \in 1..Len(runs) : d[g].at = "fill" => d[g].new # 0 /\ Filling(lists'[d[g].new])
      /\ \A g, h \in 1..Len(runs) : d[g].at = "fill" /\ d[h].at = "fill" /\ d[g].new = d[h].new => g = h
      /\ \A g \in 1..Len(runs) : d[g].quiet => d[g].at \in Idle
      /\ \A g \in 1..Len(runs) : d[g].old <= Len(lists) /\ d[g].new <= Len(lists)
  BY <1>1, DisturbKeeps
<1>4. \A g \in 1..Len(runs') : runs'[g].at = "fill" => runs'[g].new # 0 /\ Filling(lists[runs[g].new])'
  BY <1>2, <1>3 DEF Filling
<1> QED
  BY <1>2, <1>3, <1>4 DEF RunsOK

\* A run that starts keeps it: it is quiet when it is alone, and the others no longer are.
LEMMA StartKeeps ==
    ASSUME TripInv, NEW mine \in BOOLEAN, S!Started(mine), trip' \in Trips, UNCHANGED <<lists, shown, ticks, excused>>
    PROVE  TripInv'
<1>0. ShopTypes /\ RunsOK /\ runs \in Seq(RunRecords) /\ lists \in Seq(ListRecords) /\ Len(lists) \in Nat
      /\ DOMAIN runs = 1..Len(runs) /\ MaxRuns \in Nat /\ Len(ticks) \in Nat /\ Len(runs) \in Nat
  BY ShopFacts DEF TripInv, ShopTypes
<1>1. PICK n \in Nat : n = Len(runs)
  BY <1>0
<1>2. PICK d : d = S!Disturb(0)
  OBVIOUS
<1>3. d \in Seq(RunRecords) /\ Len(d) = n
  BY <1>0, <1>1, <1>2, Disturbed
<1>4. /\ \A g \in 1..n : d[g].at = "fill" => d[g].new # 0 /\ Filling(lists'[d[g].new])
      /\ \A g, h \in 1..n : d[g].at = "fill" /\ d[h].at = "fill" /\ d[g].new = d[h].new => g = h
      /\ \A g \in 1..n : d[g].quiet => d[g].at \in Idle
      /\ \A g \in 1..n : d[g].old <= Len(lists) /\ d[g].new <= Len(lists)
  BY <1>0, <1>1, <1>2, DisturbKeeps
<1>5. PICK b \in BOOLEAN : b <=> \A h \in 1..n : runs[h].at \in Idle
  OBVIOUS
<1>6. PICK e : e = [old |-> 0, kept |-> {}, new |-> 0, mine |-> mine, at |-> "read", quiet |-> b]
  OBVIOUS
<1>7. e \in RunRecords /\ e.old = 0 /\ e.new = 0 /\ e.at = "read" /\ e.quiet = b
  BY <1>6 DEF RunRecords
<1>8. runs' = Append(d, e)
  <2>1. b = (\A h \in DOMAIN runs : runs[h].at \in {"done", "failed", "over"})
    BY <1>0, <1>1, <1>5 DEF Idle
  <2> QED
    BY <1>2, <1>6, <2>1 DEF S!Started
<1>9. /\ runs' \in Seq(RunRecords) /\ Len(runs') = n + 1 /\ runs'[n + 1] = e
      /\ \A g \in 1..n : runs'[g] = d[g]
  BY <1>3, <1>7, <1>8
<1>10. \A g \in 1..(n + 1) : g = n + 1 \/ g \in 1..n
  BY <1>1
<1>11. ShopTypes'
  <2>1. n + 1 + Len(ticks) <= MaxRuns
    BY <1>0, <1>1 DEF S!Started, S!MayRun
  <2>2. \A g \in 1..Len(runs') : runs'[g].old <= Len(lists') /\ runs'[g].new <= Len(lists')
    BY <1>0, <1>4, <1>7, <1>9, <1>10
  <2> QED
    BY <1>0, <1>9, <2>1, <2>2 DEF ShopTypes
<1>12. MarksOK' /\ TicksOK'
  <2>1. Extends /\ SameTicks
    BY <1>0 DEF Extends, SameTicks
  <2> QED
    BY <2>1, ScreenKept
<1>13. RunsOK'
  <2>1. ASSUME NEW g \in 1..Len(runs'), runs'[g].at = "fill" PROVE g \in 1..n /\ runs'[g] = d[g]
    BY <1>7, <1>9, <1>10, <2>1
  <2>2. \A g \in 1..Len(runs') : runs'[g].at = "fill" => runs'[g].new # 0 /\ Filling(lists[runs[g].new])'
    <3> SUFFICES ASSUME NEW g \in 1..Len(runs'), runs'[g].at = "fill" PROVE runs'[g].new # 0 /\ Filling(lists'[runs'[g].new])
      BY DEF Filling
    <3> QED
      BY <1>4, <2>1
  <2>3. \A g, h \in 1..Len(runs') : runs'[g].at = "fill" /\ runs'[h].at = "fill" /\ runs'[g].new = runs'[h].new => g = h
    BY <1>4, <2>1
  <2>4. ASSUME NEW g \in 1..Len(runs'), runs'[g].quiet, runs'[g].at \notin Idle
        PROVE  QuietOK(runs[g])' /\ \A h \in 1..Len(runs') : h # g => runs'[h].at \in Idle
    <3>1. g = n + 1 /\ runs'[g] = e
      BY <1>4, <1>9, <1>10, <2>4
    <3>2. \A h \in 1..n : runs[h].at \in Idle
      BY <1>5, <1>7, <2>4, <3>1
    <3>3. \A h \in 1..n : d[h].at = runs[h].at
      BY <1>0, <1>1, <1>2, DisturbedAt
    <3>4. QuietOK(runs[g])'
      BY <1>7, <3>1 DEF QuietOK
    <3> QED
      BY <1>9, <1>10, <3>1, <3>2, <3>3, <3>4
  <2> QED
    BY <2>2, <2>3, <2>4 DEF RunsOK
<1> QED
  BY <1>11, <1>12, <1>13 DEF TripInv

\* The calls left behind by a page are the calls.
LEMMA Abandoned ==
    ASSUME ShopTypes, ticks' = S!Abandon
    PROVE  ticks' \in Seq(TickRecords) /\ SameTicks
<1>0. DOMAIN ticks = 1..Len(ticks) /\ Len(ticks) \in Nat /\ \A k \in 1..Len(ticks) : ticks[k] \in TickRecords
  BY ShopFacts
<1>1. ticks' = [k \in 1..Len(ticks) |-> [ticks[k] EXCEPT !.live = FALSE]]
  BY <1>0 DEF S!Abandon
<1>2. ASSUME NEW k \in 1..Len(ticks)
      PROVE  /\ ticks'[k] \in TickRecords /\ ticks'[k].item = ticks[k].item /\ ticks'[k].list = ticks[k].list
             /\ ticks'[k].done = ticks[k].done /\ ticks'[k].at = ticks[k].at
  <2>1. PICK t, r : t = ticks[k] /\ r = ticks'[k]
    OBVIOUS
  <2>2. t \in TickRecords /\ r = [t EXCEPT !.live = FALSE]
    BY <1>0, <1>1, <2>1
  <2>3. r \in TickRecords /\ r.item = t.item /\ r.list = t.list /\ r.done = t.done /\ r.at = t.at
    BY <2>2 DEF TickRecords
  <2> QED
    BY <2>1, <2>3
<1>3. ticks' \in [1..Len(ticks) -> TickRecords]
  BY <1>1, <1>2
<1>4. ticks' \in Seq(TickRecords) /\ Len(ticks') = Len(ticks)
  BY <1>0, <1>3
<1> QED
  BY <1>2, <1>4 DEF SameTicks

\* The types after a step of the page.
LEMMA PageTypes ==
    ASSUME ShopTypes, UNCHANGED <<lists, runs>>, trip' \in Trips, shown' \in Screens, shown'.list <= Len(lists),
           excused' \subseteq S!Items, ticks' \in Seq(TickRecords), SameTicks
    PROVE  ShopTypes'
<1>1. /\ Len(ticks') = Len(ticks)
      /\ \A k \in 1..Len(ticks) : ticks[k].list # 0 /\ ticks[k].list <= Len(lists) /\ ticks'[k].list = ticks[k].list
  BY DEF SameTicks, ShopTypes
<1>2. \A k \in 1..Len(ticks') : ticks'[k].list # 0 /\ ticks'[k].list <= Len(lists')
  BY <1>1
<1> QED
  BY <1>1, <1>2 DEF ShopTypes

\* No copy is right, and a copy made of the current list.
LEMMA NoCopied == ASSUME ShopTypes PROVE Copied(S!NoCopy, lists)
<1>1. Len(lists) \in Nat
  BY ShopFacts
<1> QED
  BY <1>1, NoCopyEmpty DEF Copied

LEMMA CurrentCopied == ASSUME ShopTypes, S!GetCurrent # 0 PROVE Copied(S!CopyOf(S!GetCurrent), lists)
<1>1. PICK n : n = S!GetCurrent
  OBVIOUS
<1>2. n \in Nat /\ n <= Len(lists) /\ n # 0 /\ Len(lists) \in Nat
  BY <1>1, CurrentType, ShopFacts
<1>3. PICK l : l = lists[n]
  OBVIOUS
<1>4. l \in ListRecords
  <2>1. n \in 1..Len(lists)
    BY <1>2
  <2> QED
    BY <1>3, <2>1, ShopFacts
<1>5. PICK c : c = S!CopyOf(n)
  OBVIOUS
<1>6. c = [list |-> n, week |-> l.week, item |-> l.item]
  BY <1>3, <1>5 DEF S!CopyOf
<1>7. c \in Screens /\ c.list = n /\ c.item = l.item
  BY <1>2, <1>4, <1>6 DEF Screens, ListRecords
<1>8. Copied(c, lists)
  BY <1>2, <1>3, <1>7 DEF Copied
<1> QED
  BY <1>1, <1>5, <1>8

\* A screen seeded from a copy shows the copy; its items with a call under way, and those
\* whose flag is behind, are excused.
LEMMA SeedKeeps ==
    ASSUME TripInv, UNCHANGED <<lists, runs>>, NEW c, Copied(c, lists), S!Seed(c), trip' \in Trips,
           ticks' \in Seq(TickRecords), SameTicks
    PROVE  TripInv'
<1>0. ShopTypes /\ MarksOK /\ RunsOK /\ DOMAIN ticks = 1..Len(ticks) /\ Len(ticks) \in Nat /\ Len(lists) \in Nat
  BY ShopFacts DEF TripInv
<1>a. shown' = c /\ excused' = {i \in S!Items : S!InFlight(i)} \cup S!Behind(c) /\ excused' \subseteq S!Items
  BY DEF S!Seed, S!Behind
<1>1. /\ shown' \in Screens /\ shown'.list <= Len(lists)
      /\ \A i \in S!Items : shown'.item[i] # "absent" => shown'.list # 0 /\ lists[shown'.list].item[i] # "absent"
  BY <1>a DEF Copied
<1>b. \A i \in S!Items : i \notin excused' /\ shown'.item[i] # "absent" => shown'.item[i] = lists[shown'.list].item[i]
  BY <1>a DEF S!Behind
<1>2. ShopTypes'
  BY <1>0, <1>1, <1>a, PageTypes
<1>3. MarksOK'
  <2>1. \A k \in 1..Len(ticks') : lists'[ticks'[k].list].item[ticks'[k].item] # "absent"
    BY <1>0 DEF MarksOK, SameTicks
  <2> QED
    BY <1>1, <2>1 DEF MarksOK
<1>4. ASSUME NEW i \in S!Items, i \notin excused' PROVE ItemOK(i)'
  <2>1. \A k \in 1..Len(ticks) : ~Aloft(k, i)
    BY <1>0, <1>4, <1>a DEF S!InFlight, Aloft
  <2>2. \A k \in 1..Len(ticks') : ~Aloft(k, i)'
    BY <2>1 DEF Aloft, SameTicks
  <2> QED
    BY <1>4, <1>b, <2>2 DEF ItemOK
<1>5. TicksOK'
  BY <1>4 DEF TicksOK
<1>6. RunsOK'
  BY <1>0, RunsStay
<1> QED
  BY <1>2, <1>3, <1>5, <1>6 DEF TripInv

\* The meal plan page's button, its timers, and moving between the pages keep it.
LEMMA PagesKeep == ASSUME TripInv, CopiesOK, S!Pages PROVE TripInv'
<1>0. ShopTypes /\ RunsOK /\ trip \in Trips /\ shown \in Screens /\ shown.list <= Len(lists) /\ ticks \in Seq(TickRecords)
      /\ excused \subseteq S!Items
  BY DEF TripInv, ShopTypes
<1>1. Copied(S!NoCopy, lists) /\ Copied(cache["held"], lists)
  BY <1>0, NoCopied DEF CopiesOK
<1>2. CASE S!handleGenerateShopping
  <2>1. trip' \in Trips /\ S!Started(TRUE) /\ UNCHANGED <<lists, shown, ticks, excused>>
    BY <1>0, <1>2, TripTypes DEF S!handleGenerateShopping
  <2> QED
    BY <2>1, StartKeeps
<1>3. CASE S!GenerateIdles
  <2>1. trip' \in Trips /\ UNCHANGED <<lists, runs, shown, ticks, excused>>
    BY <1>0, <1>3, TripTypes DEF S!GenerateIdles
  <2>2. SameTicks /\ Extends
    BY <1>0, <2>1, ShopFacts DEF SameTicks, Extends
  <2>3. ShopTypes'
    BY <1>0, <2>1, <2>2, PageTypes
  <2>4. MarksOK' /\ TicksOK'
    BY <2>1, <2>2, ScreenKept
  <2>5. RunsOK'
    BY <1>0, <2>1, RunsStay
  <2> QED
    BY <2>3, <2>4, <2>5 DEF TripInv
<1>4. CASE S!GenerateLeaves
  <2>1. trip' \in Trips /\ UNCHANGED <<lists, runs>> /\ S!OpenShopping(S!NoCopy)
    BY <1>0, <1>4, TripTypes DEF S!GenerateLeaves
  <2>2. ticks' \in Seq(TickRecords) /\ SameTicks
    BY <1>0, <2>1, Abandoned DEF S!OpenShopping
  <2> QED
    BY <1>1, <2>1, <2>2, SeedKeeps DEF S!OpenShopping
<1>5. CASE S!Navigate
  <2>1. trip' \in Trips /\ UNCHANGED <<lists, runs>> /\ ticks' = S!Abandon
    BY <1>0, <1>5, TripTypes DEF S!Navigate, S!OpenShopping
  <2>2. ticks' \in Seq(TickRecords) /\ SameTicks
    BY <1>0, <2>1, Abandoned
  <2>3. CASE S!OpenShopping(cache["held"])
    BY <1>1, <2>1, <2>2, <2>3, SeedKeeps DEF S!OpenShopping
  <2>4. CASE UNCHANGED <<shown, excused>>
    <3>1. Extends
      BY <1>0, <2>1, ShopFacts DEF Extends
    <3>2. ShopTypes'
      BY <1>0, <2>1, <2>2, <2>4, PageTypes
    <3>3. MarksOK' /\ TicksOK'
      BY <2>2, <2>4, <3>1, ScreenKept
    <3>4. RunsOK'
      BY <1>0, <2>1, RunsStay
    <3> QED
      BY <3>2, <3>3, <3>4 DEF TripInv
  <2> QED
    BY <1>5, <2>3, <2>4 DEF S!Navigate
<1> QED
  BY <1>2, <1>3, <1>4, <1>5 DEF S!Pages

\* The types after a step of a tick.
LEMMA TickTypes ==
    ASSUME ShopTypes, lists' \in Seq(ListRecords), Len(lists') = Len(lists), runs' \in Seq(RunRecords), Len(runs') = Len(runs),
           \A g \in 1..Len(runs') : runs'[g].old <= Len(lists') /\ runs'[g].new <= Len(lists'),
           ticks' \in Seq(TickRecords), Len(runs') + Len(ticks') <= MaxRuns,
           \A k \in 1..Len(ticks') : ticks'[k].list # 0 /\ ticks'[k].list <= Len(lists),
           trip' = trip, shown' \in Screens, shown'.list = shown.list, excused' \subseteq S!Items
    PROVE  ShopTypes'
<1>1. \A k \in 1..Len(ticks') : ticks'[k].list # 0 /\ ticks'[k].list <= Len(lists')
  OBVIOUS
<1>2. shown'.list <= Len(lists')
  BY DEF ShopTypes
<1> QED
  BY <1>1, <1>2 DEF ShopTypes

\* A new call at the end of the calls.
LEMMA TickAdded ==
    ASSUME ShopTypes, NEW t \in TickRecords, ticks' = Append(ticks, t), t.list # 0, t.list <= Len(lists)
    PROVE  /\ ticks' \in Seq(TickRecords) /\ Len(ticks') = Len(ticks) + 1 /\ Len(ticks') \in Nat
           /\ ticks'[Len(ticks) + 1] = t
           /\ \A k \in 1..Len(ticks') : k \in 1..Len(ticks) \/ k = Len(ticks) + 1
           /\ \A k \in 1..Len(ticks) : k \in 1..Len(ticks') /\ k # Len(ticks) + 1 /\ ticks'[k] = ticks[k]
           /\ \A k \in 1..Len(ticks') : ticks'[k].list # 0 /\ ticks'[k].list <= Len(lists)
<1>0. ticks \in Seq(TickRecords)
  BY DEF ShopTypes
<1>1. PICK n \in Nat : n = Len(ticks)
  BY <1>0
<1>2. /\ ticks' \in Seq(TickRecords) /\ Len(ticks') = n + 1 /\ ticks'[n + 1] = t
      /\ \A k \in 1..n : ticks'[k] = ticks[k]
  BY <1>0, <1>1
<1>3. /\ \A k \in 1..(n + 1) : k \in 1..n \/ k = n + 1
      /\ \A k \in 1..n : k \in 1..(n + 1) /\ k # n + 1
  BY <1>1
<1>4. \A k \in 1..(n + 1) : ticks'[k].list # 0 /\ ticks'[k].list <= Len(lists)
  BY <1>1, <1>2, <1>3 DEF ShopTypes
<1> QED
  BY <1>1, <1>2, <1>3, <1>4

\* One item of the screen changed.
LEMMA ShownSet ==
    ASSUME shown \in Screens, NEW i \in S!Items, NEW m \in S!Marks, shown' = [shown EXCEPT !.item[i] = m]
    PROVE  /\ shown' \in Screens /\ shown'.list = shown.list
           /\ \A j \in S!Items : shown'.item[j] = IF j = i THEN m ELSE shown.item[j]
<1>1. PICK s, r : s = shown /\ r = shown'
  OBVIOUS
<1>2. s \in Screens /\ r = [s EXCEPT !.item[i] = m] /\ s.item \in [S!Items -> S!Marks]
  BY <1>1 DEF Screens
<1>3. r \in Screens /\ r.list = s.list /\ r.item = [s.item EXCEPT ![i] = m]
  BY <1>2 DEF Screens
<1>4. \A j \in S!Items : r.item[j] = IF j = i THEN m ELSE s.item[j]
  BY <1>2, <1>3
<1> QED
  BY <1>1, <1>3, <1>4

\* A tick of the user keeps it.
LEMMA toggleKeeps == ASSUME TripInv, S!toggle PROVE TripInv'
<1>0. ShopTypes /\ MarksOK /\ TicksOK /\ RunsOK /\ Len(ticks) \in Nat /\ DOMAIN ticks = 1..Len(ticks) /\ shown \in Screens
      /\ Len(runs) \in Nat /\ MaxRuns \in Nat /\ excused \subseteq S!Items
  BY ShopFacts DEF TripInv, ShopTypes
<1>1. UNCHANGED <<lists, runs, trip>> /\ S!MayRun
  BY DEF S!toggle
<1>2. PICK i \in S!Items :
          /\ S!ItemShown(i)
          /\ shown' = [shown EXCEPT !.item[i] = S!Mark(@ = "open")]
          /\ ticks' = Append(ticks, [item |-> i, list |-> shown.list, done |-> shown.item[i] = "open",
                                     at |-> "sent", live |-> TRUE])
          /\ excused' = IF S!InFlight(i) THEN excused \cup {i} ELSE excused
  BY DEF S!toggle
<1>3. shown.item[i] # "absent" /\ shown.item[i] \in S!Marks
  BY <1>0, <1>2 DEF S!ItemShown, Screens
<1>4. shown.list \in 1..Len(lists) /\ lists[shown.list].item[i] # "absent"
  BY <1>0, <1>3, ShownAt
<1>5. PICK b \in BOOLEAN : b <=> shown.item[i] = "open"
  OBVIOUS
<1>6. PICK m : m = S!Mark(b)
  OBVIOUS
<1>7. m \in S!Marks /\ m # "absent"
  BY <1>6, MarkType
<1>8. shown' = [shown EXCEPT !.item[i] = m]
  <2>1. S!Mark(shown.item[i] = "open") = m
    BY <1>5, <1>6 DEF S!Mark
  <2> QED
    BY <1>0, <1>2, <2>1 DEF Screens
<1>9. /\ shown' \in Screens /\ shown'.list = shown.list
      /\ \A j \in S!Items : shown'.item[j] = IF j = i THEN m ELSE shown.item[j]
  BY <1>0, <1>7, <1>8, ShownSet
<1>10. PICK t : t = [item |-> i, list |-> shown.list, done |-> b, at |-> "sent", live |-> TRUE]
  OBVIOUS
<1>11. /\ t \in TickRecords /\ t.item = i /\ t.list = shown.list /\ t.done = b /\ t.at = "sent"
  BY <1>0, <1>10 DEF TickRecords, Screens
<1>12. ticks' = Append(ticks, t)
  <2>1. (shown.item[i] = "open") = b
    BY <1>5
  <2> QED
    BY <1>2, <1>10, <2>1
<1>13. /\ ticks' \in Seq(TickRecords) /\ Len(ticks') = Len(ticks) + 1 /\ Len(ticks') \in Nat
       /\ ticks'[Len(ticks) + 1] = t
       /\ \A k \in 1..Len(ticks') : k \in 1..Len(ticks) \/ k = Len(ticks) + 1
       /\ \A k \in 1..Len(ticks) : k \in 1..Len(ticks') /\ k # Len(ticks) + 1 /\ ticks'[k] = ticks[k]
       /\ \A k \in 1..Len(ticks') : ticks'[k].list # 0 /\ ticks'[k].list <= Len(lists)
  <2>1. t.list # 0 /\ t.list <= Len(lists)
    BY <1>4, <1>11
  <2> QED
    BY <1>0, <1>11, <1>12, <2>1, TickAdded
<1>14. ShopTypes'
  <2>1. Len(runs') + Len(ticks') <= MaxRuns
    BY <1>0, <1>1, <1>13 DEF S!MayRun
  <2>2. /\ lists' \in Seq(ListRecords) /\ Len(lists') = Len(lists) /\ runs' \in Seq(RunRecords) /\ Len(runs') = Len(runs)
        /\ \A g \in 1..Len(runs') : runs'[g].old <= Len(lists') /\ runs'[g].new <= Len(lists')
    BY <1>0, <1>1 DEF ShopTypes
  <2>3. excused' \subseteq S!Items /\ trip' = trip
    BY <1>0, <1>1, <1>2
  <2> QED
    BY <1>0, <1>9, <1>13, <2>1, <2>2, <2>3, TickTypes
<1>15. MarksOK'
  <2>1. ASSUME NEW k \in 1..Len(ticks') PROVE lists'[ticks'[k].list].item[ticks'[k].item] # "absent"
    <3>1. CASE k \in 1..Len(ticks)
      BY <1>0, <1>1, <1>13, <3>1 DEF MarksOK
    <3>2. CASE k = Len(ticks) + 1
      BY <1>1, <1>4, <1>11, <1>13, <3>2
    <3> QED
      BY <1>13, <3>1, <3>2
  <2>2. ASSUME NEW j \in S!Items, shown'.item[j] # "absent"
        PROVE  shown'.list # 0 /\ lists'[shown'.list].item[j] # "absent"
    <3>1. shown.item[j] # "absent"
      BY <1>3, <1>9, <2>2
    <3> QED
      BY <1>0, <1>1, <1>9, <3>1 DEF MarksOK
  <2> QED
    BY <2>1, <2>2 DEF MarksOK
<1>16. ASSUME NEW j \in S!Items, j \notin excused' PROVE ItemOK(j)'
  <2>1. j \notin excused /\ ItemOK(j)
    BY <1>0, <1>2, <1>16 DEF TicksOK
  <2>2. CASE j # i
    <3>1. \A k \in 1..Len(ticks) :
              (Aloft(k, j)' <=> Aloft(k, j)) /\ (Aloft(k, j) => /\ ticks'[k].list = ticks[k].list
                                                                /\ ticks'[k].done = ticks[k].done
                                                                /\ ticks'[k].at = ticks[k].at)
      BY <1>13 DEF Aloft
    <3>2. \A k \in 1..Len(ticks') : Aloft(k, j)' => k \in 1..Len(ticks)
      BY <1>11, <1>13, <2>2 DEF Aloft
    <3>3. shown'.item[j] = shown.item[j] /\ lists' = lists /\ Len(ticks) <= Len(ticks')
      BY <1>0, <1>1, <1>9, <1>13, <2>2
    <3> QED
      BY <1>0, <1>9, <1>13, <2>1, <3>1, <3>2, <3>3, ItemKept
  <2>3. CASE j = i
    <3>1. \A k \in 1..Len(ticks) : ~Aloft(k, i)
      BY <1>0, <1>2, <1>16, <2>3 DEF S!InFlight, Aloft
    <3>2. shown.item[i] = lists[shown.list].item[i]
      BY <1>3, <2>1, <2>3, <3>1 DEF ItemOK
    <3>3. \A k \in 1..Len(ticks') : Aloft(k, i)' <=> k = Len(ticks) + 1
      BY <1>11, <1>13, <3>1 DEF Aloft
    <3>4. lists[shown.list].item[i] = S!Mark(b <=> FALSE)
      <4>1. shown.item[i] = S!Mark(b <=> FALSE)
        BY <1>3, <1>5 DEF S!Mark, S!Marks
      <4> QED
        BY <3>2, <4>1
    <3>5. PICK p : p = Len(ticks) + 1
      OBVIOUS
    <3>6. /\ p \in 1..Len(ticks') /\ ticks'[p] = t /\ \A k \in 1..Len(ticks') : Aloft(k, i)' <=> k = p
      BY <1>0, <1>13, <3>3, <3>5
    <3>7. /\ t.list = shown'.list /\ shown'.item[i] = S!Mark(t.done)
          /\ lists'[shown'.list].item[i] = S!Mark(t.done <=> (t.at = "done"))
      BY <1>1, <1>6, <1>9, <1>11, <3>4
    <3> QED
      BY <2>3, <3>6, <3>7 DEF ItemOK
  <2> QED
    BY <2>2, <2>3
<1>17. TicksOK'
  BY <1>16 DEF TicksOK
<1>18. RunsOK'
  BY <1>0, <1>1, RunsStay
<1> QED
  BY <1>14, <1>15, <1>17, <1>18 DEF TripInv

\* A call that moves on.
LEMMA TickMoves ==
    ASSUME ShopTypes, NEW k \in 1..Len(ticks), NEW a \in {"sent", "done", "lost", "over"}, ticks' = [ticks EXCEPT ![k].at = a]
    PROVE  /\ ticks' \in Seq(TickRecords) /\ Len(ticks') = Len(ticks)
           /\ \A j \in 1..Len(ticks) : /\ ticks'[j].item = ticks[j].item /\ ticks'[j].list = ticks[j].list
                                       /\ ticks'[j].done = ticks[j].done
                                       /\ ticks'[j].at = IF j = k THEN a ELSE ticks[j].at
           /\ \A j \in 1..Len(ticks') : ticks'[j].list # 0 /\ ticks'[j].list <= Len(lists)
<1>0. ticks \in Seq(TickRecords) /\ Len(ticks) \in Nat /\ ticks[k] \in TickRecords
  BY ShopFacts DEF ShopTypes
<1>1. PICK t : t = ticks[k]
  OBVIOUS
<1>2. PICK r : r = [t EXCEPT !.at = a]
  OBVIOUS
<1>3. r \in TickRecords /\ r.item = t.item /\ r.list = t.list /\ r.done = t.done /\ r.at = a
  BY <1>0, <1>1, <1>2 DEF TickRecords
<1>4. ticks' = [ticks EXCEPT ![k] = r]
  BY <1>0, <1>1, <1>2
<1>5. ticks' \in Seq(TickRecords) /\ Len(ticks') = Len(ticks) /\ ticks'[k] = r /\ \A j \in 1..Len(ticks) : j # k => ticks'[j] = ticks[j]
  BY <1>0, <1>3, <1>4
<1>6. \A j \in 1..Len(ticks) : /\ ticks'[j].item = ticks[j].item /\ ticks'[j].list = ticks[j].list
                               /\ ticks'[j].done = ticks[j].done
                               /\ ticks'[j].at = IF j = k THEN a ELSE ticks[j].at
  BY <1>1, <1>3, <1>5
<1>7. \A j \in 1..Len(ticks') : ticks'[j].list # 0 /\ ticks'[j].list <= Len(lists)
  BY <1>5, <1>6 DEF ShopTypes
<1> QED
  BY <1>5, <1>6, <1>7

\* The server setting the mark of an item there is: no item comes or goes.
LEMMA MarkSet ==
    ASSUME ShopTypes, NEW n \in 1..Len(lists), NEW i \in S!Items, lists[n].item[i] # "absent", NEW b,
           lists' = [lists EXCEPT ![n].item[i] = S!Mark(b)]
    PROVE  /\ lists' \in Seq(ListRecords) /\ Len(lists') = Len(lists) /\ lists'[n].item[i] = S!Mark(b)
           /\ \A p \in 1..Len(lists), j \in S!Items : j # i => lists'[p].item[j] = lists[p].item[j]
           /\ \A p \in 1..Len(lists), j \in S!Items : lists'[p].item[j] = "absent" <=> lists[p].item[j] = "absent"
<1>1. PICK m : m = S!Mark(b)
  OBVIOUS
<1>2. m \in S!Marks /\ m # "absent"
  BY <1>1, MarkType
<1>3. /\ lists' \in Seq(ListRecords) /\ Len(lists') = Len(lists)
      /\ \A p \in 1..Len(lists), j \in S!Items : lists'[p].item[j] = IF p = n /\ j = i THEN m ELSE lists[p].item[j]
  BY <1>1, <1>2, ItemSet
<1>4. lists'[n].item[i] = S!Mark(b)
  BY <1>1, <1>3
<1>5. \A p \in 1..Len(lists), j \in S!Items : j # i => lists'[p].item[j] = lists[p].item[j]
  BY <1>3
<1>6. \A p \in 1..Len(lists), j \in S!Items : lists'[p].item[j] = "absent" <=> lists[p].item[j] = "absent"
  BY <1>2, <1>3
<1> QED
  BY <1>3, <1>4, <1>5, <1>6

\* A tick that the server has applied, or not, keeps it.
LEMMA UpdateKeeps == ASSUME TripInv, NEW k \in 1..Len(ticks), S!UpdateItemCompleted(k) PROVE TripInv'
<1>0. ShopTypes /\ MarksOK /\ TicksOK /\ RunsOK /\ Len(ticks) \in Nat /\ Len(lists) \in Nat /\ lists \in Seq(ListRecords)
      /\ shown \in Screens /\ excused \subseteq S!Items
  BY ShopFacts DEF TripInv, ShopTypes
<1>1. ticks[k].at = "sent" /\ runs' = S!Disturb(0) /\ UNCHANGED <<trip, shown>>
  BY DEF S!UpdateItemCompleted
<1>2. PICK applied \in BOOLEAN, heard \in BOOLEAN :
          /\ heard => applied
          /\ lists' = IF applied THEN [lists EXCEPT ![ticks[k].list].item[ticks[k].item] = S!Mark(ticks[k].done)] ELSE lists
          /\ ticks' = [ticks EXCEPT ![k].at = IF heard THEN "done" ELSE "lost"]
          /\ excused' = IF applied /\ ~heard THEN excused \cup {ticks[k].item} ELSE excused
  BY DEF S!UpdateItemCompleted
<1>3. PICK n, i, b, a : n = ticks[k].list /\ i = ticks[k].item /\ b = ticks[k].done /\ a = IF heard THEN "done" ELSE "lost"
  OBVIOUS
<1>4. n \in 1..Len(lists) /\ i \in S!Items /\ b \in BOOLEAN /\ lists[n].item[i] # "absent"
  BY <1>0, <1>3, TickAt DEF MarksOK
<1>5. a \in {"sent", "done", "lost", "over"} /\ a # "over" /\ (a = "done" <=> heard)
  BY <1>3
<1>6. /\ lists' \in Seq(ListRecords) /\ Len(lists') = Len(lists)
      /\ applied => lists'[n].item[i] = S!Mark(b)
      /\ ~applied => lists' = lists
      /\ \A p \in 1..Len(lists), j \in S!Items : j # i => lists'[p].item[j] = lists[p].item[j]
      /\ \A p \in 1..Len(lists), j \in S!Items : lists'[p].item[j] = "absent" <=> lists[p].item[j] = "absent"
  <2>1. CASE applied
    <3>1. lists' = [lists EXCEPT ![n].item[i] = S!Mark(b)]
      BY <1>2, <1>3, <2>1
    <3>2. /\ lists' \in Seq(ListRecords) /\ Len(lists') = Len(lists) /\ lists'[n].item[i] = S!Mark(b)
          /\ \A p \in 1..Len(lists), j \in S!Items : j # i => lists'[p].item[j] = lists[p].item[j]
          /\ \A p \in 1..Len(lists), j \in S!Items : lists'[p].item[j] = "absent" <=> lists[p].item[j] = "absent"
      BY <1>0, <1>4, <3>1, MarkSet
    <3> QED
      BY <2>1, <3>2
  <2>2. CASE ~applied
    BY <1>0, <1>2, <2>2
  <2> QED
    BY <2>1, <2>2
<1>7. /\ ticks' \in Seq(TickRecords) /\ Len(ticks') = Len(ticks)
      /\ \A j \in 1..Len(ticks) : /\ ticks'[j].item = ticks[j].item /\ ticks'[j].list = ticks[j].list
                                  /\ ticks'[j].done = ticks[j].done
                                  /\ ticks'[j].at = IF j = k THEN a ELSE ticks[j].at
      /\ \A j \in 1..Len(ticks') : ticks'[j].list # 0 /\ ticks'[j].list <= Len(lists)
  <2>1. ticks' = [ticks EXCEPT ![k].at = a]
    BY <1>2, <1>3
  <2> QED
    BY <1>0, <1>5, <2>1, TickMoves
<1>8. /\ RunsOK' /\ runs' \in Seq(RunRecords) /\ Len(runs') = Len(runs)
      /\ \A g \in 1..Len(runs') : runs'[g].old <= Len(lists') /\ runs'[g].new <= Len(lists')
  BY <1>0, <1>1, <1>6, DisturbedRuns
<1>9. ShopTypes'
  <2>1. excused' \subseteq S!Items /\ shown' \in Screens /\ shown'.list = shown.list /\ trip' = trip
    BY <1>0, <1>1, <1>2, <1>3, <1>4
  <2>2. Len(runs') + Len(ticks') <= MaxRuns
    BY <1>0, <1>7, <1>8 DEF ShopTypes
  <2> QED
    BY <1>0, <1>6, <1>7, <1>8, <2>1, <2>2, TickTypes
<1>10. MarksOK'
  <2>1. ASSUME NEW j \in 1..Len(ticks') PROVE lists'[ticks'[j].list].item[ticks'[j].item] # "absent"
    <3>1. j \in 1..Len(ticks) /\ ticks'[j].list = ticks[j].list /\ ticks'[j].item = ticks[j].item
      BY <1>7
    <3>2. ticks[j].list \in 1..Len(lists) /\ ticks[j].item \in S!Items
      BY <1>0, <3>1, TickAt
    <3>3. lists[ticks[j].list].item[ticks[j].item] # "absent"
      BY <1>0, <3>1 DEF MarksOK
    <3> QED
      BY <1>6, <3>1, <3>2, <3>3
  <2>2. ASSUME NEW j \in S!Items, shown'.item[j] # "absent"
        PROVE  shown'.list # 0 /\ lists'[shown'.list].item[j] # "absent"
    <3>1. shown.list \in 1..Len(lists) /\ lists[shown.list].item[j] # "absent"
      BY <1>0, <1>1, <2>2, ShownAt
    <3> QED
      BY <1>1, <1>6, <3>1
  <2> QED
    BY <2>1, <2>2 DEF MarksOK
<1>11. ASSUME NEW j \in S!Items, j \notin excused' PROVE ItemOK(j)'
  <2>1. j \notin excused /\ ItemOK(j)
    BY <1>0, <1>2, <1>11 DEF TicksOK
  <2>2. CASE j # i
    <3>1. \A h \in 1..Len(ticks) :
              (Aloft(h, j)' <=> Aloft(h, j)) /\ (Aloft(h, j) => /\ ticks'[h].list = ticks[h].list
                                                                /\ ticks'[h].done = ticks[h].done
                                                                /\ ticks'[h].at = ticks[h].at)
      BY <1>3, <1>7, <2>2 DEF Aloft
    <3>2. shown.item[j] # "absent" => lists'[shown.list].item[j] = lists[shown.list].item[j]
      BY <1>0, <1>6, <2>2, ShownAt
    <3>3. \A h \in 1..Len(ticks') : Aloft(h, j)' => h \in 1..Len(ticks)
      BY <1>7
    <3> QED
      BY <1>0, <1>1, <1>7, <2>1, <3>1, <3>2, <3>3, ItemKept
  <2>3. CASE j = i
    <3>1. Aloft(k, i)
      BY <1>1, <1>3 DEF Aloft
    <3>2. /\ n = shown.list /\ shown.item[i] = S!Mark(b) /\ lists[shown.list].item[i] = S!Mark(b <=> FALSE)
          /\ \A h \in 1..Len(ticks) : Aloft(h, i) => h = k
      BY <1>1, <1>3, <2>1, <2>3, <3>1 DEF ItemOK
    <3>3. \A h \in 1..Len(ticks') : Aloft(h, i)' <=> h = k
      BY <1>3, <1>5, <1>7, <3>1, <3>2 DEF Aloft
    <3>4. lists'[n].item[i] = S!Mark(b <=> (a = "done"))
      <4>1. applied => heard
        BY <1>2, <1>3, <1>11, <2>3
      <4>2. CASE heard
        <5>1. lists'[n].item[i] = S!Mark(b)
          BY <1>2, <1>6, <4>2
        <5>2. (b <=> (a = "done")) <=> b
          BY <1>5, <4>2
        <5> QED
          BY <5>1, <5>2 DEF S!Mark
      <4>3. CASE ~heard
        <5>1. lists'[n].item[i] = S!Mark(b <=> FALSE)
          BY <1>6, <3>2, <4>1, <4>3
        <5>2. (b <=> (a = "done")) <=> (b <=> FALSE)
          BY <1>5, <4>3
        <5> QED
          BY <5>1, <5>2 DEF S!Mark
      <4> QED
        BY <4>2, <4>3
    <3>5. ticks'[k].list = n /\ ticks'[k].done = b /\ ticks'[k].at = a /\ k \in 1..Len(ticks')
      BY <1>3, <1>7
    <3>6. shown'.list = n /\ shown'.item[i] = S!Mark(b)
      BY <1>1, <3>2
    <3> QED
      BY <2>3, <3>3, <3>4, <3>5, <3>6 DEF ItemOK
  <2> QED
    BY <2>2, <2>3
<1>12. TicksOK'
  BY <1>11 DEF TicksOK
<1> QED
  BY <1>8, <1>9, <1>10, <1>12 DEF TripInv

\* The answer to a tick, with its rollback, keeps it.
LEMMA ToggleAnsweredKeeps == ASSUME TripInv, NEW k \in 1..Len(ticks), S!ToggleAnswered(k) PROVE TripInv'
<1>0. ShopTypes /\ MarksOK /\ TicksOK /\ RunsOK /\ Len(ticks) \in Nat /\ Len(lists) \in Nat
      /\ shown \in Screens /\ excused \subseteq S!Items
  BY ShopFacts DEF TripInv, ShopTypes
<1>1. ticks[k].at \in {"done", "lost"} /\ ticks' = [ticks EXCEPT ![k].at = "over"] /\ UNCHANGED <<lists, runs, trip>>
  BY DEF S!ToggleAnswered
<1>3. PICK n, i, b : n = ticks[k].list /\ i = ticks[k].item /\ b = ticks[k].done
  OBVIOUS
<1>4. n \in 1..Len(lists) /\ i \in S!Items /\ b \in BOOLEAN
  BY <1>0, <1>3, TickAt
<1>5. PICK back \in BOOLEAN : back <=> ticks[k].at = "lost" /\ S!Last(k)
  OBVIOUS
<1>6. /\ shown' \in Screens /\ shown'.list = shown.list
      /\ \A j \in S!Items : shown'.item[j] = IF back /\ j = i /\ shown.item[i] # "absent" THEN S!Mark(~b) ELSE shown.item[j]
      /\ excused' = IF ticks[k].at = "lost" /\ ~back THEN excused \cup {i} ELSE excused
  <2>1. CASE back
    <3>1. PICK m : m = IF shown.item[i] = "absent" THEN shown.item[i] ELSE S!Mark(~b)
      OBVIOUS
    <3>2. m \in S!Marks
      BY <1>0, <1>4, <3>1, MarkType DEF Screens
    <3>3. shown' = [shown EXCEPT !.item[i] = m] /\ excused' = excused
      BY <1>0, <1>3, <1>5, <2>1, <3>1 DEF S!ToggleAnswered, Screens
    <3>4. /\ shown' \in Screens /\ shown'.list = shown.list
          /\ \A j \in S!Items : shown'.item[j] = IF j = i THEN m ELSE shown.item[j]
      BY <1>0, <1>4, <3>2, <3>3, ShownSet
    <3> QED
      BY <2>1, <3>1, <3>3, <3>4
  <2>2. CASE ~back
    BY <1>0, <1>3, <1>5, <2>2 DEF S!ToggleAnswered
  <2> QED
    BY <2>1, <2>2
<1>7. /\ ticks' \in Seq(TickRecords) /\ Len(ticks') = Len(ticks)
      /\ \A j \in 1..Len(ticks) : /\ ticks'[j].item = ticks[j].item /\ ticks'[j].list = ticks[j].list
                                  /\ ticks'[j].done = ticks[j].done
                                  /\ ticks'[j].at = IF j = k THEN "over" ELSE ticks[j].at
      /\ \A j \in 1..Len(ticks') : ticks'[j].list # 0 /\ ticks'[j].list <= Len(lists)
  BY <1>0, <1>1, TickMoves
<1>8. ShopTypes'
  <2>1. excused' \subseteq S!Items /\ trip' = trip
    BY <1>0, <1>1, <1>4, <1>6
  <2>2. Len(runs') + Len(ticks') <= MaxRuns
    BY <1>0, <1>1, <1>7 DEF ShopTypes
  <2>3. /\ lists' \in Seq(ListRecords) /\ Len(lists') = Len(lists) /\ runs' \in Seq(RunRecords) /\ Len(runs') = Len(runs)
        /\ \A g \in 1..Len(runs') : runs'[g].old <= Len(lists') /\ runs'[g].new <= Len(lists')
    BY <1>0, <1>1 DEF ShopTypes
  <2> QED
    BY <1>0, <1>6, <1>7, <2>1, <2>2, <2>3, TickTypes
<1>9. MarksOK'
  <2>1. \A j \in 1..Len(ticks') : lists'[ticks'[j].list].item[ticks'[j].item] # "absent"
    BY <1>0, <1>1, <1>7 DEF MarksOK
  <2>2. \A j \in S!Items : shown'.item[j] # "absent" => shown.item[j] # "absent"
    BY <1>6
  <2>3. \A j \in S!Items : shown'.item[j] # "absent" => shown'.list # 0 /\ lists'[shown'.list].item[j] # "absent"
    BY <1>0, <1>1, <1>6, <2>2 DEF MarksOK
  <2> QED
    BY <2>1, <2>3 DEF MarksOK
<1>10. ASSUME NEW j \in S!Items, j \notin excused' PROVE ItemOK(j)'
  <2>1. j \notin excused /\ ItemOK(j)
    BY <1>0, <1>6, <1>10 DEF TicksOK
  <2>2. CASE j # i
    <3>1. \A h \in 1..Len(ticks) :
              (Aloft(h, j)' <=> Aloft(h, j)) /\ (Aloft(h, j) => /\ ticks'[h].list = ticks[h].list
                                                                /\ ticks'[h].done = ticks[h].done
                                                                /\ ticks'[h].at = ticks[h].at)
      BY <1>3, <1>7, <2>2 DEF Aloft
    <3>2. \A h \in 1..Len(ticks') : Aloft(h, j)' => h \in 1..Len(ticks)
      BY <1>7
    <3>3. shown'.item[j] = shown.item[j] /\ lists' = lists
      BY <1>1, <1>6, <2>2
    <3> QED
      BY <1>0, <1>6, <1>7, <2>1, <3>1, <3>2, <3>3, ItemKept
  <2>3. CASE j = i
    <3>1. Aloft(k, i)
      BY <1>1, <1>3 DEF Aloft
    <3>2. /\ shown.item[i] = S!Mark(b) /\ lists[shown.list].item[i] = S!Mark(b <=> (ticks[k].at = "done"))
          /\ \A h \in 1..Len(ticks) : Aloft(h, i) => h = k
      BY <1>3, <2>1, <2>3, <3>1 DEF ItemOK
    <3>3. \A h \in 1..Len(ticks') : ~Aloft(h, i)'
      BY <1>3, <1>7, <3>2 DEF Aloft
    <3>4. shown'.item[i] = lists[shown.list].item[i]
      <4>1. CASE ticks[k].at = "lost"
        <5>1. back /\ shown.item[i] # "absent"
          BY <1>6, <1>10, <2>3, <3>2, <4>1, MarkType
        <5>2. shown'.item[i] = S!Mark(~b)
          BY <1>4, <1>6, <5>1
        <5>3. lists[shown.list].item[i] = S!Mark(b <=> FALSE)
          BY <3>2, <4>1
        <5> QED
          BY <1>4, <5>2, <5>3 DEF S!Mark
      <4>2. CASE ticks[k].at = "done"
        <5>1. shown'.item[i] = S!Mark(b)
          BY <1>4, <1>5, <1>6, <3>2, <4>2
        <5>2. lists[shown.list].item[i] = S!Mark(b <=> TRUE)
          BY <3>2, <4>2
        <5> QED
          BY <1>4, <5>1, <5>2 DEF S!Mark
      <4> QED
        BY <1>1, <4>1, <4>2
    <3>5. shown'.item[i] = lists'[shown'.list].item[i]
      BY <1>1, <1>6, <3>4
    <3> QED
      BY <2>3, <3>3, <3>5 DEF ItemOK
  <2> QED
    BY <2>2, <2>3
<1>11. TicksOK'
  BY <1>10 DEF TicksOK
<1>12. RunsOK'
  BY <1>0, <1>1, RunsStay
<1> QED
  BY <1>8, <1>9, <1>11, <1>12 DEF TripInv

\* What someone else ticks.
LEMMA TickedElsewhere ==
    ASSUME TripInv, S!TickElsewhere
    PROVE  \E n \in 1..Len(lists), i \in S!Items, b \in BOOLEAN :
              /\ n = S!GetCurrent /\ lists[n].item[i] # "absent"
              /\ lists' = [lists EXCEPT ![n].item[i] = S!Mark(b)]
              /\ excused' = excused \cup {i}
              /\ ticks' = Append(ticks, [item |-> i, list |-> n, done |-> b, at |-> "over", live |-> FALSE])
<1>0. ShopTypes /\ Len(lists) \in Nat /\ DOMAIN lists = 1..Len(lists)
  BY ShopFacts DEF TripInv
<1>1. PICK n : n = S!GetCurrent
  OBVIOUS
<1>2. n \in 1..Len(lists)
  BY <1>0, <1>1, CurrentType DEF S!TickElsewhere
<1>3. PICK i \in S!Items :
          /\ lists[n].item[i] # "absent"
          /\ lists' = [lists EXCEPT ![n].item[i] = S!Mark(@ = "open")]
          /\ excused' = excused \cup {i}
          /\ ticks' = Append(ticks, [item |-> i, list |-> n, done |-> lists[n].item[i] = "open",
                                     at |-> "over", live |-> FALSE])
  BY <1>1 DEF S!TickElsewhere
<1>4. PICK b \in BOOLEAN : b = (lists[n].item[i] = "open")
  OBVIOUS
<1>5. lists' = [lists EXCEPT ![n].item[i] = S!Mark(b)]
  <2>1. lists[n] \in ListRecords
    BY <1>0, <1>2, ShopFacts
  <2> QED
    BY <1>0, <1>2, <1>3, <1>4, <2>1 DEF ListRecords
<1> QED
  BY <1>1, <1>2, <1>3, <1>4, <1>5

\* Someone else's tick keeps it.
LEMMA ElsewhereTickKeeps == ASSUME TripInv, S!TickElsewhere PROVE TripInv'
<1>0. ShopTypes /\ MarksOK /\ TicksOK /\ RunsOK /\ Len(ticks) \in Nat /\ Len(lists) \in Nat /\ Len(runs) \in Nat
      /\ MaxRuns \in Nat /\ shown \in Screens /\ excused \subseteq S!Items
  BY ShopFacts DEF TripInv, ShopTypes
<1>1. S!MayRun /\ runs' = S!Disturb(0) /\ UNCHANGED <<trip, shown>>
  BY DEF S!TickElsewhere
<1>2. PICK n \in 1..Len(lists), i \in S!Items, b \in BOOLEAN :
              /\ n = S!GetCurrent /\ lists[n].item[i] # "absent"
              /\ lists' = [lists EXCEPT ![n].item[i] = S!Mark(b)]
              /\ excused' = excused \cup {i}
              /\ ticks' = Append(ticks, [item |-> i, list |-> n, done |-> b, at |-> "over", live |-> FALSE])
  BY TickedElsewhere
<1>3. /\ lists' \in Seq(ListRecords) /\ Len(lists') = Len(lists) /\ lists'[n].item[i] = S!Mark(b)
      /\ \A p \in 1..Len(lists), j \in S!Items : j # i => lists'[p].item[j] = lists[p].item[j]
      /\ \A p \in 1..Len(lists), j \in S!Items : lists'[p].item[j] = "absent" <=> lists[p].item[j] = "absent"
  BY <1>0, <1>2, MarkSet
<1>4. PICK t : t = [item |-> i, list |-> n, done |-> b, at |-> "over", live |-> FALSE]
  OBVIOUS
<1>5. n \in Nat /\ n # 0 /\ n <= Len(lists)
  BY <1>0, <1>2
<1>6. t \in TickRecords /\ t.item = i /\ t.list = n /\ t.at = "over"
  BY <1>4, <1>5 DEF TickRecords
<1>7. /\ ticks' \in Seq(TickRecords) /\ Len(ticks') = Len(ticks) + 1 /\ Len(ticks') \in Nat
      /\ ticks'[Len(ticks) + 1] = t
      /\ \A k \in 1..Len(ticks') : k \in 1..Len(ticks) \/ k = Len(ticks) + 1
      /\ \A k \in 1..Len(ticks) : k \in 1..Len(ticks') /\ k # Len(ticks) + 1 /\ ticks'[k] = ticks[k]
      /\ \A k \in 1..Len(ticks') : ticks'[k].list # 0 /\ ticks'[k].list <= Len(lists)
  BY <1>0, <1>2, <1>4, <1>5, <1>6, TickAdded
<1>8. /\ RunsOK' /\ runs' \in Seq(RunRecords) /\ Len(runs') = Len(runs)
      /\ \A g \in 1..Len(runs') : runs'[g].old <= Len(lists') /\ runs'[g].new <= Len(lists')
  BY <1>0, <1>1, <1>3, DisturbedRuns
<1>9. ShopTypes'
  <2>1. excused' \subseteq S!Items /\ shown' \in Screens /\ shown'.list = shown.list /\ trip' = trip
    BY <1>0, <1>1, <1>2
  <2>2. Len(runs') + Len(ticks') <= MaxRuns
    BY <1>0, <1>1, <1>7, <1>8 DEF S!MayRun
  <2> QED
    BY <1>0, <1>3, <1>7, <1>8, <2>1, <2>2, TickTypes
<1>10. MarksOK'
  <2>1. ASSUME NEW k \in 1..Len(ticks') PROVE lists'[ticks'[k].list].item[ticks'[k].item] # "absent"
    <3>1. CASE k \in 1..Len(ticks)
      <4>1. ticks'[k] = ticks[k] /\ ticks[k].list \in 1..Len(lists) /\ ticks[k].item \in S!Items
        BY <1>0, <1>7, <3>1, TickAt
      <4>2. lists[ticks[k].list].item[ticks[k].item] # "absent"
        BY <1>0, <3>1 DEF MarksOK
      <4> QED
        BY <1>3, <4>1, <4>2
    <3>2. CASE k = Len(ticks) + 1
      <4>1. ticks'[k].list = n /\ ticks'[k].item = i
        BY <1>6, <1>7, <3>2
      <4> QED
        BY <1>2, <1>3, <4>1
    <3> QED
      BY <1>7, <3>1, <3>2
  <2>2. ASSUME NEW j \in S!Items, shown'.item[j] # "absent"
        PROVE  shown'.list # 0 /\ lists'[shown'.list].item[j] # "absent"
    <3>1. shown.list \in 1..Len(lists) /\ lists[shown.list].item[j] # "absent"
      BY <1>0, <1>1, <2>2, ShownAt
    <3> QED
      BY <1>1, <1>3, <3>1
  <2> QED
    BY <2>1, <2>2 DEF MarksOK
<1>11. ASSUME NEW j \in S!Items, j \notin excused' PROVE ItemOK(j)'
  <2>1. j # i /\ j \notin excused /\ ItemOK(j)
    BY <1>0, <1>2, <1>11 DEF TicksOK
  <2>2. \A k \in 1..Len(ticks) :
              (Aloft(k, j)' <=> Aloft(k, j)) /\ (Aloft(k, j) => /\ ticks'[k].list = ticks[k].list
                                                                /\ ticks'[k].done = ticks[k].done
                                                                /\ ticks'[k].at = ticks[k].at)
    BY <1>7 DEF Aloft
  <2>3. \A k \in 1..Len(ticks') : Aloft(k, j)' => k \in 1..Len(ticks)
    BY <1>6, <1>7 DEF Aloft
  <2>4. shown.item[j] # "absent" => lists'[shown.list].item[j] = lists[shown.list].item[j]
    BY <1>0, <1>3, <2>1, ShownAt
  <2>5. Len(ticks) <= Len(ticks') /\ shown'.list = shown.list /\ shown'.item[j] = shown.item[j]
    BY <1>0, <1>1, <1>7
  <2> QED
    BY <1>0, <1>7, <2>1, <2>2, <2>3, <2>4, <2>5, ItemKept
<1>12. TicksOK'
  BY <1>11 DEF TicksOK
<1> QED
  BY <1>8, <1>9, <1>10, <1>12 DEF TripInv

\* Fetching the list keeps it: the screen changes only when it is seeded with the answer.
LEMMA FetchesKeep == ASSUME ShopInv, S!Copying PROVE TripInv'
<1>0. ShopTypes /\ RunsOK /\ trip \in Trips /\ ticks \in Seq(TickRecords) /\ Copied(cache["coming"], lists)
      /\ shown \in Screens /\ shown.list <= Len(lists) /\ excused \subseteq S!Items /\ TripInv
  BY DEF ShopInv, TripInv, CopiesOK, ShopTypes
<1>1. UNCHANGED <<lists, runs, trip, ticks>>
  BY DEF S!Copying, S!FetchRead, S!FetchArrives, S!FetchLost
<1>2. SameTicks /\ Extends /\ ticks' \in Seq(TickRecords) /\ trip' \in Trips
  BY <1>0, <1>1, ShopFacts DEF SameTicks, Extends
<1>3. CASE UNCHANGED <<shown, excused>>
  <2>1. ShopTypes'
    BY <1>0, <1>1, <1>2, <1>3, PageTypes
  <2>2. MarksOK' /\ TicksOK'
    BY <1>0, <1>2, <1>3, ScreenKept
  <2>3. RunsOK'
    BY <1>0, <1>1, RunsStay
  <2> QED
    BY <2>1, <2>2, <2>3 DEF TripInv
<1>4. CASE S!Seed(cache["coming"])
  <2>1. UNCHANGED <<lists, runs>>
    BY <1>1
  <2>2. PICK c : c = cache["coming"]
    OBVIOUS
  <2>3. Copied(c, lists) /\ S!Seed(c)
    BY <1>0, <1>4, <2>2
  <2> QED
    BY <1>0, <1>2, <2>1, <2>3, SeedKeeps
<1>5. UNCHANGED <<shown, excused>> \/ S!Seed(cache["coming"])
  BY DEF S!Copying, S!FetchRead, S!FetchArrives, S!FetchLost
<1> QED
  BY <1>3, <1>4, <1>5

\* Every step of the trip keeps what does not concern the copies.
LEMMA TripStep == ASSUME ShopInv, S!ShopNext PROVE TripInv'
<1>0. TripInv /\ CopiesOK /\ ShopTypes /\ DOMAIN runs = 1..Len(runs) /\ DOMAIN ticks = 1..Len(ticks)
  BY ShopFacts DEF ShopInv, TripInv
<1>1. CASE S!Pages
  BY <1>0, <1>1, PagesKeep
<1>2. CASE S!Ticking
  BY <1>0, <1>2, toggleKeeps, ElsewhereTickKeeps, UpdateKeeps, ToggleAnsweredKeeps DEF S!Ticking
<1>3. CASE S!GenerateElsewhere
  <2>1. S!Started(FALSE) /\ UNCHANGED <<lists, shown, ticks, excused>> /\ trip' \in Trips
    BY <1>0, <1>3 DEF S!GenerateElsewhere, ShopTypes
  <2> QED
    BY <1>0, <2>1, StartKeeps
<1>4. ASSUME NEW g \in 1..Len(runs), S!Generating(g) PROVE TripInv'
  BY <1>0, <1>4, ReadKeeps, OffKeeps, CreateKeeps, InsertKeeps, FailKeeps DEF S!Generating
<1>5. ASSUME NEW g \in 1..Len(runs), S!GenerateAnswered(g) PROVE TripInv'
  BY <1>0, <1>5, GenerateAnsweredKeeps
<1>6. CASE S!Copying
  BY <1>6, FetchesKeep
<1> QED
  BY <1>0, <1>1, <1>2, <1>3, <1>4, <1>5, <1>6 DEF S!ShopNext

\* Lists stay, and what they list stays listed.
Grows ==
    /\ Len(lists) <= Len(lists')
    /\ \A n \in 1..Len(lists), i \in S!Items : lists[n].item[i] # "absent" => lists'[n].item[i] # "absent"

LEMMA ListsGrow == ASSUME TripInv, S!ShopNext PROVE Grows
<1>0. /\ ShopTypes /\ MarksOK /\ Len(lists) \in Nat /\ lists \in Seq(ListRecords)
      /\ DOMAIN lists = 1..Len(lists) /\ DOMAIN runs = 1..Len(runs) /\ DOMAIN ticks = 1..Len(ticks)
  BY ShopFacts DEF TripInv, ShopTypes
<1>1. CASE lists' = lists
  BY <1>0, <1>1 DEF Grows
<1>2. ASSUME NEW g, S!DeactivateShoppingLists(g) PROVE Grows
  <2>1. lists' = [n \in 1..Len(lists) |-> [lists[n] EXCEPT !.active = FALSE]]
    BY <1>0, <1>2 DEF S!DeactivateShoppingLists
  <2>2. ASSUME NEW n \in 1..Len(lists) PROVE lists'[n] \in ListRecords /\ lists'[n].item = lists[n].item
    <3>1. PICK l, r : l = lists[n] /\ r = lists'[n]
      OBVIOUS
    <3>2. l \in ListRecords /\ r = [l EXCEPT !.active = FALSE]
      BY <1>0, <2>1, <3>1, ShopFacts
    <3>3. r \in ListRecords /\ r.item = l.item
      BY <3>2 DEF ListRecords
    <3> QED
      BY <3>1, <3>3
  <2>3. lists' \in [1..Len(lists) -> ListRecords]
    BY <2>1, <2>2
  <2>4. Len(lists') = Len(lists)
    BY <1>0, <2>3
  <2> QED
    BY <1>0, <2>2, <2>4 DEF Grows
<1>3. ASSUME NEW g, S!CreateShoppingList(g) PROVE Grows
  <2>1. PICK l : lists' = Append(lists, l)
    BY <1>3 DEF S!CreateShoppingList
  <2>2. Len(lists') = Len(lists) + 1 /\ \A n \in 1..Len(lists) : lists'[n] = lists[n]
    BY <1>0, <2>1
  <2> QED
    BY <1>0, <2>2 DEF Grows
<1>4. ASSUME NEW g \in 1..Len(runs), S!InsertShoppingListItem(g) PROVE Grows
  <2>1. PICK n \in 1..Len(lists), i \in S!Items : lists' = [lists EXCEPT ![n].item[i] = S!Mark(i \in runs[g].kept)]
    BY <1>4, FirstMissing
  <2>2. PICK m : m = S!Mark(i \in runs[g].kept)
    OBVIOUS
  <2>3. m \in S!Marks /\ m # "absent"
    BY <2>2, MarkType
  <2>4. /\ Len(lists') = Len(lists)
        /\ \A p \in 1..Len(lists), j \in S!Items :
              lists'[p].item[j] = IF p = n /\ j = i THEN m ELSE lists[p].item[j]
    <3>1. lists' = [lists EXCEPT ![n].item[i] = m]
      BY <2>1, <2>2
    <3>2. ShopTypes
      BY <1>0
    <3> QED
      BY <2>3, <3>1, <3>2, ItemSet
  <2> QED
    BY <1>0, <2>3, <2>4 DEF Grows
<1>5. ASSUME NEW n \in 1..Len(lists), NEW i \in S!Items, lists[n].item[i] # "absent", NEW b,
             lists' = [lists EXCEPT ![n].item[i] = S!Mark(b)]
      PROVE  Grows
  <2>1. /\ Len(lists') = Len(lists)
        /\ \A p \in 1..Len(lists), j \in S!Items : lists'[p].item[j] = "absent" <=> lists[p].item[j] = "absent"
    BY <1>0, <1>5, MarkSet
  <2> QED
    BY <1>0, <2>1 DEF Grows
<1>6. CASE S!TickElsewhere
  <2>1. PICK n \in 1..Len(lists), i \in S!Items, b \in BOOLEAN :
              /\ lists[n].item[i] # "absent" /\ lists' = [lists EXCEPT ![n].item[i] = S!Mark(b)]
    BY <1>6, TickedElsewhere
  <2> QED
    BY <1>5, <2>1
<1>7. ASSUME NEW k \in 1..Len(ticks), S!UpdateItemCompleted(k) PROVE Grows
  <2>1. PICK m, i, b : m = ticks[k].list /\ i = ticks[k].item /\ b = ticks[k].done
    OBVIOUS
  <2>2. m \in 1..Len(lists) /\ i \in S!Items /\ lists[m].item[i] # "absent"
    BY <1>0, <2>1, TickAt DEF MarksOK
  <2>3. lists' = lists \/ lists' = [lists EXCEPT ![m].item[i] = S!Mark(b)]
    BY <1>7, <2>1 DEF S!UpdateItemCompleted
  <2> QED
    BY <1>1, <1>5, <2>2, <2>3
<1>8. CASE S!Ticking
  <2>1. CASE S!toggle \/ \E k \in 1..Len(ticks) : S!ToggleAnswered(k)
    BY <1>1, <2>1 DEF S!toggle, S!ToggleAnswered
  <2> QED
    BY <1>0, <1>6, <1>7, <1>8, <2>1 DEF S!Ticking
<1>9. CASE S!Pages
  <2>1. lists' = lists
    BY <1>9 DEF S!Pages, S!handleGenerateShopping, S!GenerateIdles, S!GenerateLeaves, S!Navigate
  <2> QED
    BY <1>1, <2>1
<1>10. CASE S!Copying \/ S!GenerateElsewhere
  BY <1>1, <1>10 DEF S!Copying, S!FetchRead, S!FetchArrives, S!FetchLost, S!GenerateElsewhere
<1>11. ASSUME NEW g \in 1..Len(runs), S!Generating(g) \/ S!GenerateAnswered(g) PROVE Grows
  <2>1. CASE S!ReadCompleted(g) \/ S!GenerateFails(g) \/ S!GenerateAnswered(g)
    BY <1>1, <2>1 DEF S!ReadCompleted, S!GenerateFails, S!GenerateAnswered
  <2> QED
    BY <1>2, <1>3, <1>4, <1>11, <2>1 DEF S!Generating
<1> QED
  BY <1>0, <1>8, <1>9, <1>10, <1>11 DEF S!ShopNext

\* A copy stays right while lists grow.
LEMMA CopyKept ==
    ASSUME NEW c, Copied(c, lists), Grows, Len(lists) \in Nat, Len(lists') \in Nat
    PROVE  Copied(c, lists')
<1>1. c.list \in Nat /\ c.list <= Len(lists')
  BY DEF Copied, Screens, Grows
<1>2. ASSUME NEW i \in S!Items, c.item[i] # "absent" PROVE c.list # 0 /\ lists'[c.list].item[i] # "absent"
  <2>1. c.list # 0 /\ lists[c.list].item[i] # "absent" /\ c.list <= Len(lists)
    BY <1>2 DEF Copied
  <2>2. c.list \in 1..Len(lists)
    BY <1>1, <2>1
  <2> QED
    BY <2>1, <2>2 DEF Grows
<1> QED
  BY <1>1, <1>2 DEF Copied

\* What a step makes of the copies: each is one of those there were, none, or the current list.
LEMMA CopiesMove ==
    ASSUME ShopInv, S!ShopNext
    PROVE  \E h, c \in Screens :
              /\ cache' \in [{"held", "coming"} -> Screens] /\ cache'["held"] = h /\ cache'["coming"] = c
              /\ Copied(h, lists) /\ Copied(c, lists)
<1>0. ShopTypes /\ CopiesOK /\ S!NoCopy \in Screens /\ DOMAIN runs = 1..Len(runs) /\ DOMAIN ticks = 1..Len(ticks)
  BY NoCopyEmpty, ShopFacts DEF ShopInv, TripInv
<1>1. /\ cache \in [{"held", "coming"} -> Screens] /\ Copied(cache["held"], lists) /\ Copied(cache["coming"], lists)
      /\ Copied(S!NoCopy, lists)
  BY <1>0, NoCopied DEF CopiesOK
<1>2. CASE cache' = cache
  BY <1>1, <1>2
<1>3. CASE S!NoneComing
  BY <1>0, <1>1, <1>3 DEF S!NoneComing
<1>4. CASE S!Pages
  <2>1. CASE S!GenerateLeaves
    <3>1. cache' = [c \in {"held", "coming"} |-> S!NoCopy]
      BY <2>1 DEF S!GenerateLeaves
    <3> QED
      BY <1>0, <1>1, <3>1
  <2>2. CASE ~S!GenerateLeaves
    <3>1. cache' = cache
      BY <1>4, <2>2 DEF S!Pages, S!handleGenerateShopping, S!GenerateIdles, S!Navigate
    <3> QED
      BY <1>2, <3>1
  <2> QED
    BY <2>1, <2>2
<1>5. CASE S!Copying
  <2>1. CASE S!FetchRead
    <3>1. PICK n : n = S!CopyOf(S!GetCurrent)
      OBVIOUS
    <3>2. Copied(n, lists) /\ n \in Screens
      BY <1>0, <2>1, <3>1, CurrentCopied DEF S!FetchRead, Copied
    <3>3. cache' = [cache EXCEPT !["coming"] = n]
      BY <2>1, <3>1 DEF S!FetchRead
    <3> QED
      BY <1>1, <3>2, <3>3
  <2>2. CASE S!FetchArrives
    <3>1. cache' = [c \in {"held", "coming"} |-> IF c = "held" THEN cache["coming"] ELSE S!NoCopy]
      BY <2>2 DEF S!FetchArrives
    <3> QED
      BY <1>0, <1>1, <3>1
  <2>3. CASE S!FetchLost
    BY <1>3, <2>3 DEF S!FetchLost
  <2> QED
    BY <1>5, <2>1, <2>2, <2>3 DEF S!Copying
<1>6. CASE S!Ticking
  <2>1. cache' = cache \/ S!NoneComing
    BY <1>0, <1>6 DEF S!Ticking, S!toggle, S!TickElsewhere, S!UpdateItemCompleted, S!ToggleAnswered
  <2> QED
    BY <1>2, <1>3, <2>1
<1>7. CASE S!GenerateElsewhere
  BY <1>2, <1>7 DEF S!GenerateElsewhere
<1>8. ASSUME NEW g, S!Generating(g) \/ S!GenerateAnswered(g) PROVE cache' = cache \/ S!NoneComing
  BY <1>8 DEF S!Generating, S!ReadCompleted, S!DeactivateShoppingLists, S!CreateShoppingList,
              S!InsertShoppingListItem, S!GenerateFails, S!GenerateAnswered
<1> QED
  BY <1>2, <1>3, <1>4, <1>5, <1>6, <1>7, <1>8 DEF S!ShopNext

\* Every step of the trip keeps it.
LEMMA ShopStep == ShopInv /\ [S!ShopNext]_shopVars => ShopInv'
<1> SUFFICES ASSUME ShopInv, [S!ShopNext]_shopVars PROVE ShopInv'
  OBVIOUS
<1>1. CASE S!ShopNext
  <2>1. TripInv' /\ TripInv /\ Grows
    BY <1>1, TripStep, ListsGrow DEF ShopInv
  <2>2. Len(lists) \in Nat /\ Len(lists') \in Nat
    BY <2>1 DEF TripInv, ShopTypes
  <2>3. PICK h, c \in Screens :
              /\ cache' \in [{"held", "coming"} -> Screens] /\ cache'["held"] = h /\ cache'["coming"] = c
              /\ Copied(h, lists) /\ Copied(c, lists)
    BY <1>1, CopiesMove
  <2>4. Copied(h, lists') /\ Copied(c, lists')
    BY <2>1, <2>2, <2>3, CopyKept
  <2>5. CopiesOK'
    BY <2>3, <2>4 DEF CopiesOK, Copied
  <2> QED
    BY <2>1, <2>5 DEF ShopInv
<1>2. CASE UNCHANGED shopVars
  <2>1. UNCHANGED <<lists, runs, trip, shown, ticks, excused>> /\ cache' = cache
    BY <1>2 DEF shopVars
  <2>2. CopiesOK'
    BY <2>1 DEF ShopInv, CopiesOK, Copied
  <2>3. TripInv'
    BY <2>1 DEF ShopInv, TripInv, ShopTypes, MarksOK, TicksOK, ItemOK, Aloft, RunsOK, QuietOK, Filling, S!Done
  <2> QED
    BY <2>2, <2>3 DEF ShopInv
<1> QED
  BY <1>1, <1>2

\* Only an insert of its run brings the last item of a list.
LEMMA LastItem ==
    ASSUME TripInv, S!ShopNext, \A g \in 1..Len(runs) : ~S!InsertShoppingListItem(g),
           NEW n \in 1..Len(lists), lists[n].item[NItems] = "absent"
    PROVE  lists'[n].item[NItems] = "absent"
<1>0. /\ ShopTypes /\ MarksOK /\ Len(lists) \in Nat /\ lists \in Seq(ListRecords)
      /\ DOMAIN lists = 1..Len(lists) /\ DOMAIN runs = 1..Len(runs) /\ DOMAIN ticks = 1..Len(ticks)
  BY ShopFacts DEF TripInv, ShopTypes
<1>1. NItems \in S!Items
  BY BoundsAssumption DEF S!Items
<1>2. CASE lists' = lists
  BY <1>2
<1>3. ASSUME NEW g, S!DeactivateShoppingLists(g) PROVE lists'[n].item[NItems] = "absent"
  <2>1. PICK l, r : l = lists[n] /\ r = lists'[n]
    OBVIOUS
  <2>2. l \in ListRecords /\ r = [l EXCEPT !.active = FALSE]
    BY <1>0, <1>3, <2>1, ShopFacts DEF S!DeactivateShoppingLists
  <2>3. r.item = l.item
    BY <2>2 DEF ListRecords
  <2> QED
    BY <2>1, <2>3
<1>4. ASSUME NEW g, S!CreateShoppingList(g) PROVE lists'[n].item[NItems] = "absent"
  <2>1. lists'[n] = lists[n]
    BY <1>0, <1>4 DEF S!CreateShoppingList
  <2> QED
    BY <2>1
<1>5. CASE S!TickElsewhere
  <2>1. PICK m \in 1..Len(lists), i \in S!Items, b \in BOOLEAN :
              /\ lists[m].item[i] # "absent" /\ lists' = [lists EXCEPT ![m].item[i] = S!Mark(b)]
    BY <1>5, TickedElsewhere
  <2> QED
    BY <1>0, <1>1, <2>1, MarkSet
<1>6. ASSUME NEW k \in 1..Len(ticks), S!UpdateItemCompleted(k) PROVE lists'[n].item[NItems] = "absent"
  <2>1. PICK m, i, b : m = ticks[k].list /\ i = ticks[k].item /\ b = ticks[k].done
    OBVIOUS
  <2>2. m \in 1..Len(lists) /\ i \in S!Items /\ lists[m].item[i] # "absent"
    BY <1>0, <2>1, TickAt DEF MarksOK
  <2>3. lists' = lists \/ lists' = [lists EXCEPT ![m].item[i] = S!Mark(b)]
    BY <1>6, <2>1 DEF S!UpdateItemCompleted
  <2>4. CASE lists' = [lists EXCEPT ![m].item[i] = S!Mark(b)]
    BY <1>0, <1>1, <2>2, <2>4, MarkSet
  <2> QED
    BY <1>2, <2>3, <2>4
<1>7. CASE S!Pages
  <2>1. lists' = lists
    BY <1>7 DEF S!Pages, S!handleGenerateShopping, S!GenerateIdles, S!GenerateLeaves, S!Navigate
  <2> QED
    BY <1>2, <2>1
<1>8. CASE S!Ticking
  <2>1. CASE S!toggle \/ \E k \in 1..Len(ticks) : S!ToggleAnswered(k)
    BY <1>2, <2>1 DEF S!toggle, S!ToggleAnswered
  <2> QED
    BY <1>0, <1>5, <1>6, <1>8, <2>1 DEF S!Ticking
<1>9. CASE S!Copying \/ S!GenerateElsewhere
  BY <1>2, <1>9 DEF S!Copying, S!FetchRead, S!FetchArrives, S!FetchLost, S!GenerateElsewhere
<1>10. ASSUME NEW g \in 1..Len(runs), S!Generating(g) \/ S!GenerateAnswered(g) PROVE lists'[n].item[NItems] = "absent"
  <2>1. CASE S!ReadCompleted(g) \/ S!GenerateFails(g) \/ S!GenerateAnswered(g)
    BY <1>2, <2>1 DEF S!ReadCompleted, S!GenerateFails, S!GenerateAnswered
  <2> QED
    BY <1>3, <1>4, <1>10, <2>1 DEF S!Generating
<1> QED
  BY <1>0, <1>7, <1>8, <1>9, <1>10 DEF S!ShopNext

\* A quiet run leaves the new list with the ticks of the old one.
LEMMA ShopKeepsTicks ==
    ASSUME TripInv, S!ShopNext, NEW g \in DOMAIN runs, runs[g].at = "fill",
           lists'[runs[g].new].item[NItems] # "absent", runs[g].quiet, runs[g].old # 0
    PROVE  S!Done(lists'[runs[g].new]) = S!Done(lists[runs[g].old])
<1>0. /\ ShopTypes /\ RunsOK /\ Len(lists) \in Nat /\ g \in 1..Len(runs) /\ runs[g] \in RunRecords
      /\ NItems \in Nat /\ NItems \in S!Items
  BY ShopFacts, BoundsAssumption DEF TripInv, S!Items
<1>1. "fill" \notin Idle
  BY DEF Idle
<1>2. QuietOK(runs[g]) /\ \A h \in 1..Len(runs) : h # g => runs[h].at \in Idle
  BY <1>0, <1>1, QuietRun
<1>3. runs[g].new \in 1..Len(lists) /\ lists[runs[g].new].item[NItems] = "absent"
  BY <1>0, FillingAt DEF Filling
<1>4. PICK h \in 1..Len(runs) : S!InsertShoppingListItem(h)
  BY <1>3, LastItem
<1>5. h = g
  BY <1>1, <1>2, <1>4 DEF S!InsertShoppingListItem
<1>6. PICK n \in 1..Len(lists), i \in S!Items :
              /\ n = runs[g].new /\ lists[n].item[i] = "absent"
              /\ \A j \in S!Items : lists[n].item[j] = "absent" => i <= j
              /\ lists' = [lists EXCEPT ![n].item[i] = S!Mark(i \in runs[g].kept)]
              /\ runs' = [runs EXCEPT ![g] = IF i = NItems THEN S!Ended(g, "done") ELSE @]
  <2>1. S!InsertShoppingListItem(g)
    BY <1>4, <1>5
  <2> QED
    BY <1>0, <2>1, FirstMissing
<1>7. PICK m : m = S!Mark(i \in runs[g].kept)
  OBVIOUS
<1>8. \A p \in 1..Len(lists), j \in S!Items :
            lists'[p].item[j] = IF p = n /\ j = i THEN m ELSE lists[p].item[j]
  <2>1. m \in S!Marks
    BY <1>7, MarkType
  <2>2. lists' = [lists EXCEPT ![n].item[i] = m]
    BY <1>6, <1>7
  <2>3. ShopTypes
    BY <1>0
  <2> QED
    BY <2>1, <2>2, <2>3, ItemSet
<1>9. i = NItems
  BY <1>0, <1>3, <1>6, <1>8
<1>10. runs[g].kept \subseteq S!Items /\ runs[g].kept = S!Done(lists[runs[g].old])
  BY <1>0, <1>2 DEF QuietOK, RunRecords
<1>11. ASSUME NEW j \in S!Items PROVE lists'[n].item[j] = "done" <=> j \in runs[g].kept
  <2>1. CASE j = i
    <3>1. lists'[n].item[j] = m
      BY <1>8, <2>1
    <3> QED
      BY <1>7, <2>1, <3>1 DEF S!Mark
  <2>2. CASE j # i
    <3>1. lists'[n].item[j] = lists[n].item[j]
      BY <1>8, <2>2
    <3>2. j \in 1..NItems
      BY DEF S!Items
    <3>3. ~(NItems <= j)
      BY <1>0, <1>9, <2>2, <3>2
    <3>4. lists[n].item[j] # "absent"
      BY <1>6, <1>9, <3>3
    <3> QED
      BY <1>2, <1>6, <3>1, <3>4 DEF QuietOK
  <2> QED
    BY <2>1, <2>2
<1>12. S!Done(lists'[n]) = runs[g].kept
  BY <1>10, <1>11 DEF S!Done
<1> QED
  BY <1>6, <1>10, <1>12

-----------------------------------------------------------------------------
(* The kitchen's pure functions, of any arguments.                         *)

\* What a quotient is.
LEMMA Quotient ==
    ASSUME NEW a \in Int, NEW b \in Int, b > 0
    PROVE  a \div b \in Int /\ (a \div b) * b <= a /\ a < (a \div b) * b + b
<1>1. PICK q \in Int, m \in Int : q = a \div b /\ m = a % b
  OBVIOUS
<1>2. a = b * q + m /\ 0 <= m /\ m < b
  BY <1>1
<1>3. b * q = q * b
  OBVIOUS
<1> QED
  BY <1>1, <1>2, <1>3

\* A quotient grows with what is divided.
LEMMA QuotientGrows ==
    ASSUME NEW a \in Int, NEW b \in Int, NEW c \in Int, c > 0, a <= b
    PROVE  a \div c <= b \div c
<1>1. PICK x \in Int, y \in Int : x = a \div c /\ y = b \div c /\ x * c <= a /\ b < y * c + c
  BY Quotient
<1>2. x * c < (y + 1) * c
  <2>1. (y + 1) * c = y * c + c
    OBVIOUS
  <2> QED
    BY <1>1, <2>1
<1>3. x < y + 1
  <2> SUFFICES ASSUME x >= y + 1 PROVE FALSE
    OBVIOUS
  <2>1. PICK d \in Nat : x = y + 1 + d
    <3>1. x - y - 1 \in Nat /\ x = y + 1 + (x - y - 1)
      OBVIOUS
    <3> QED
      BY <3>1
  <2>2. x * c = (y + 1) * c + d * c
    BY <2>1
  <2>3. d * c >= 0
    OBVIOUS
  <2> QED
    BY <1>2, <2>2, <2>3
<1> QED
  BY <1>1, <1>3

\* Rounding: to the nearest, and no less of more.
LEMMA Rounds ==
    ASSUME NEW e \in Int, NEW f \in Int, NEW u \in Int, u > 0, e <= f,
           NEW q, q = (2 * e + u) \div (2 * u), NEW t, t = (2 * f + u) \div (2 * u)
    PROVE  2 * (e - q * u) \in -u..u /\ q <= t
<1>1. q \in Int /\ q * (2 * u) <= 2 * e + u /\ 2 * e + u < q * (2 * u) + 2 * u
  <2>1. PICK a \in Int, b \in Int : a = 2 * e + u /\ b = 2 * u /\ b > 0
    OBVIOUS
  <2> QED
    BY <2>1, Quotient
<1>2. PICK w \in Int : w = q * u
  BY <1>1
<1>3. q * (2 * u) = 2 * w
  BY <1>1, <1>2
<1>4. q <= t
  <2>1. PICK a \in Int, b \in Int, c \in Int : a = 2 * e + u /\ b = 2 * f + u /\ c = 2 * u /\ c > 0 /\ a <= b
    OBVIOUS
  <2>2. a \div c <= b \div c
    BY <2>1, QuotientGrows
  <2> QED
    BY <2>1, <2>2
<1>5. 2 * e - 2 * w <= u /\ 2 * e - 2 * w >= -u
  BY <1>1, <1>2, <1>3
<1>6. 2 * (e - w) = 2 * e - 2 * w
  OBVIOUS
<1> QED
  BY <1>2, <1>4, <1>5, <1>6

\* For any amount and servings, what is listed is the nearest hundredth, and more servings
\* never ask for less (scaleAmount).
THEOREM ScaledNearest ==
    ASSUME NEW amt, NEW whole \in Nat, NEW num \in Nat, NEW den \in Nat \ {0},
           amt.whole = whole, amt.num = num, amt.den = den,
           NEW base \in Nat \ {0}, NEW servings \in Nat
    PROVE  K!ScaledToNearest(amt, base, servings)
<1>1. PICK a \in Nat : a = whole * den + num
  <2>1. whole * den \in Nat
    OBVIOUS
  <2> QED
    BY <2>1
<1>2. K!Value(amt) = <<a, den>>
  BY <1>1 DEF K!Value
<1>3. PICK u \in Nat : u = den * base /\ u > 0
  <2>1. den * base \in Nat /\ den * base > 0
    OBVIOUS
  <2> QED
    BY <2>1
<1>4. PICK e \in Nat, f \in Nat : e = 100 * a * servings /\ f = 100 * a * (servings + 1) /\ e <= f
  <2>1. PICK b \in Nat : b = 100 * a
    OBVIOUS
  <2>2. b * servings \in Nat /\ b * (servings + 1) = b * servings + b
    OBVIOUS
  <2> QED
    BY <2>1, <2>2
<1>5. 2 * den * base = 2 * u
  <2>1. 2 * den * base = 2 * (den * base)
    OBVIOUS
  <2> QED
    BY <1>3, <2>1
<1>6. 2 * 100 * a * servings = 2 * e /\ 2 * 100 * a * (servings + 1) = 2 * f
  <2>1. \A x \in Nat : 2 * 100 * a * x = 2 * (100 * a * x)
    OBVIOUS
  <2> QED
    BY <1>4, <2>1
<1>7. PICK q, t : q = K!scaleAmount(amt, base, servings) /\ t = K!scaleAmount(amt, base, servings + 1)
  OBVIOUS
<1>8. q = (2 * e + u) \div (2 * u)
  BY <1>2, <1>3, <1>5, <1>6, <1>7 DEF K!scaleAmount
<1>9. t = (2 * f + u) \div (2 * u)
  BY <1>2, <1>3, <1>5, <1>6, <1>7 DEF K!scaleAmount
<1>10. 2 * (e - q * u) \in -u..u /\ q <= t
  BY <1>3, <1>4, <1>8, <1>9, Rounds
<1> QED
  BY <1>2, <1>3, <1>4, <1>7, <1>10 DEF K!ScaledToNearest

\* The kitchen's lists are those of Listings.
LEMMA KitchenLists ==
    /\ \A s, T : K!Filtered(s, T) = Filtered(s, T)
    /\ \A s, F : K!Arranged(s, F) = Arranged(s, F)
    /\ \A key : K!ByKey(key) = ByKey(key)
    /\ \A ss : K!Flattened(ss) = Flattened(ss) /\ K!Cells(ss) = Cells(ss)
    /\ \A s : K!Elements(s) = Elements(s)
    /\ \A G : K!Listing(G, K!Ascending(G)) = Listing(G, Ascending(G))
<1>0. \A G : K!Cardinality(G) = Cardinality(G)
  BY DEF K!Cardinality, Cardinality
<1>1. ASSUME NEW G, NEW F PROVE K!Listing(G, F) = Listing(G, F)
  <2>1. PICK up : up = [x \in G |-> Cardinality({y \in G : <<y, x>> \in F})]
    OBVIOUS
  <2>2. \A x \in G : K!Cardinality({y \in G : <<y, x>> \in F}) = up[x] /\ Cardinality({y \in G : <<y, x>> \in F}) = up[x]
    BY <1>0, <2>1
  <2>3. \A n : (CHOOSE x \in G : K!Cardinality({y \in G : <<y, x>> \in F}) = n)
                = (CHOOSE x \in G : Cardinality({y \in G : <<y, x>> \in F}) = n)
    BY <2>2
  <2> DEFINE kth(n) == CHOOSE x \in G : K!Cardinality({y \in G : <<y, x>> \in F}) = n
             nth(n) == CHOOSE x \in G : Cardinality({y \in G : <<y, x>> \in F}) = n
  <2>4. K!Listing(G, F) = [n \in 1..K!Cardinality(G) |-> kth(n)]
    BY DEF K!Listing
  <2>5. Listing(G, F) = [n \in 1..Cardinality(G) |-> nth(n)]
    BY DEF Listing
  <2>6. \A n : kth(n) = nth(n)
    BY <2>3
  <2>7. K!Cardinality(G) = Cardinality(G)
    BY <1>0
  <2> HIDE DEF kth, nth
  <2> QED
    BY <2>4, <2>5, <2>6, <2>7
<1>2. \A T : K!Ascending(T) = Ascending(T)
  BY DEF K!Ascending, Ascending
<1>3. \A ss : K!Cells(ss) = Cells(ss)
  BY DEF K!Cells, Cells
<1>4. \A T : K!Reading(T) = Reading(T)
  BY DEF K!Reading, Reading
<1>5. \A s, T : K!Filtered(s, T) = Filtered(s, T)
  BY <1>1, <1>2 DEF K!Filtered, Filtered
<1>6. \A s, F : K!Arranged(s, F) = Arranged(s, F)
  BY <1>1 DEF K!Arranged, Arranged
<1>7. \A key : K!ByKey(key) = ByKey(key)
  BY DEF K!ByKey, ByKey
<1>8. \A ss : K!Flattened(ss) = Flattened(ss)
  BY <1>1, <1>3, <1>4 DEF K!Flattened, Flattened
<1>9. \A s : K!Elements(s) = Elements(s)
  BY DEF K!Elements, Elements
<1>10. \A G : K!Listing(G, K!Ascending(G)) = Listing(G, Ascending(G))
  BY <1>1, <1>2
<1> QED
  BY <1>3, <1>5, <1>6, <1>7, <1>8, <1>9, <1>10


\* Lists of one or none, one after the other.
LEMMA Joined ==
    ASSUME NEW a, NEW b
    PROVE  <<a>> \o <<b>> = <<a, b>> /\ <<a>> \o <<>> = <<a>> /\ <<>> \o <<b>> = <<b>> /\ <<>> \o <<>> = <<>>
<1>1. PICK A : A = {a, b}
  OBVIOUS
<1>2. <<a>> \in Seq(A) /\ <<b>> \in Seq(A) /\ <<>> \in Seq(A) /\ b \in A
  BY <1>1
<1>3. <<a>> \o <<b>> = Append(<<a>>, b)
  BY <1>2, AppendIsConcat
<1>4. Append(<<a>>, b) = <<a, b>>
  <2>1. PICK s, t : s = Append(<<a>>, b) /\ t = <<a, b>>
    OBVIOUS
  <2>2. s \in Seq(A) /\ Len(s) = 2 /\ s[1] = a /\ s[2] = b
    BY <1>2, <2>1
  <2>3. t \in Seq(A) /\ Len(t) = 2 /\ t[1] = a /\ t[2] = b
    BY <1>2, <2>1
  <2>4. \A k \in 1..2 : s[k] = t[k]
    BY <2>2, <2>3
  <2> QED
    BY <2>1, <2>2, <2>3, <2>4, SeqEqual
<1>5. <<a>> \o <<>> = <<a>> /\ <<>> \o <<b>> = <<b>> /\ <<>> \o <<>> = <<>>
  BY <1>2, ConcatEmptySeq
<1> QED
  BY <1>3, <1>4, <1>5

\* A cue.
Cue(id, kind, days) == [id |-> id, kind |-> kind, days |-> days]

\* The list s of n cues is right for a record with id i, amount a and days d.
CueOK(q, i) == q.id = i /\ q.days \in Int /\ q.kind \in {"low", "expired", "expiring"}
Kinds(s, n, kind) == \E k \in 1..n : s[k].kind = kind
CuesOK(s, i, a, d, n) ==
    /\ DOMAIN s = 1..n /\ s = [k \in 1..n |-> s[k]] /\ \A k \in 1..n : CueOK(s[k], i)
    /\ Kinds(s, n, "low") <=> a <= 1
    /\ Kinds(s, n, "expired") <=> d < 0
    /\ Kinds(s, n, "expiring") <=> d \in 0..5


\* Lists of no cue, one and two.
LEMMA NoneIs ==
    ASSUME NEW i, NEW s, s = <<>>
    PROVE  DOMAIN s = 1..0 /\ s = [k \in 1..0 |-> s[k]] /\ (\A k \in 1..0 : CueOK(s[k], i)) /\ \A kind : ~Kinds(s, 0, kind)
<1>1. DOMAIN s = 1..0 /\ s = [k \in 1..0 |-> s[k]]
  OBVIOUS
<1> QED
  BY <1>1 DEF Kinds

LEMMA OneIs ==
    ASSUME NEW i, NEW p, CueOK(p, i), NEW s, s = <<p>>
    PROVE  DOMAIN s = 1..1 /\ s = [k \in 1..1 |-> s[k]] /\ (\A k \in 1..1 : CueOK(s[k], i)) /\ \A kind : Kinds(s, 1, kind) <=> p.kind = kind
<1>1. DOMAIN s = 1..1 /\ s = [k \in 1..1 |-> s[k]] /\ s[1] = p
  OBVIOUS
<1>2. \A k \in 1..1 : k = 1
  OBVIOUS
<1> QED
  BY <1>1, <1>2 DEF Kinds

LEMMA TwoAre ==
    ASSUME NEW i, NEW p, CueOK(p, i), NEW q, CueOK(q, i), NEW s, s = <<p, q>>
    PROVE  DOMAIN s = 1..2 /\ s = [k \in 1..2 |-> s[k]] /\ (\A k \in 1..2 : CueOK(s[k], i)) /\ \A kind : Kinds(s, 2, kind) <=> p.kind = kind \/ q.kind = kind
<1>1. DOMAIN s = 1..2 /\ s = [k \in 1..2 |-> s[k]] /\ s[1] = p /\ s[2] = q
  OBVIOUS
<1>2. \A k \in 1..2 : k = 1 \/ k = 2
  OBVIOUS
<1>3. 1 \in 1..2 /\ 2 \in 1..2
  OBVIOUS
<1> QED
  BY <1>1, <1>2, <1>3 DEF Kinds

\* What the cues of a record are.
LEMMA CuesOfIs ==
    ASSUME NEW r, NEW i, r.id = i, NEW a \in Int, r.amount = a, NEW d \in Int, r.days = d, NEW s, s = K!CuesOf(r)
    PROVE  \E n \in Nat : CuesOK(s, i, a, d, n)
<1>1. PICK lo, ex, dy : lo = Cue(i, "low", 99) /\ ex = Cue(i, "expired", d) /\ dy = Cue(i, "expiring", d)
  OBVIOUS
<1>2. CueOK(lo, i) /\ lo.kind = "low"
  BY <1>1 DEF Cue, CueOK
<1>3. CueOK(ex, i) /\ ex.kind = "expired"
  BY <1>1 DEF Cue, CueOK
<1>4. CueOK(dy, i) /\ dy.kind = "expiring"
  BY <1>1 DEF Cue, CueOK
<1>5. PICK p, q : /\ p = (IF a <= 1 THEN <<lo>> ELSE <<>>)
                  /\ q = (IF d = 99 THEN <<>> ELSE IF d < 0 THEN <<ex>> ELSE IF d <= 5 THEN <<dy>> ELSE <<>>)
  OBVIOUS
<1>6. s = p \o q
  BY <1>1, <1>5 DEF K!CuesOf, K!lowThreshold, K!expiringWithinDays, K!NoDate, Cue
<1>7. CASE a <= 1 /\ d < 0
  <2>1. p = <<lo>> /\ q = <<ex>>
    BY <1>5, <1>7
  <2>2. s = <<lo, ex>>
    BY <1>6, <2>1, Joined
  <2>3. CuesOK(s, i, a, d, 2)
    BY <1>2, <1>3, <1>7, <2>2, TwoAre DEF CuesOK
  <2> QED
    BY <2>3
<1>8. CASE a <= 1 /\ d \in 0..5
  <2>1. p = <<lo>> /\ q = <<dy>>
    BY <1>5, <1>8
  <2>2. s = <<lo, dy>>
    BY <1>6, <2>1, Joined
  <2>3. CuesOK(s, i, a, d, 2)
    BY <1>2, <1>4, <1>8, <2>2, TwoAre DEF CuesOK
  <2> QED
    BY <2>3
<1>9. CASE a <= 1 /\ d > 5
  <2>1. p = <<lo>> /\ q = <<>>
    BY <1>5, <1>9
  <2>2. s = <<lo>>
    BY <1>6, <2>1, Joined
  <2>3. CuesOK(s, i, a, d, 1)
    BY <1>2, <1>9, <2>2, OneIs DEF CuesOK
  <2> QED
    BY <2>3
<1>10. CASE ~(a <= 1) /\ d < 0
  <2>1. p = <<>> /\ q = <<ex>>
    BY <1>5, <1>10
  <2>2. s = <<ex>>
    BY <1>6, <2>1, Joined
  <2>3. CuesOK(s, i, a, d, 1)
    BY <1>3, <1>10, <2>2, OneIs DEF CuesOK
  <2> QED
    BY <2>3
<1>11. CASE ~(a <= 1) /\ d \in 0..5
  <2>1. p = <<>> /\ q = <<dy>>
    BY <1>5, <1>11
  <2>2. s = <<dy>>
    BY <1>6, <2>1, Joined
  <2>3. CuesOK(s, i, a, d, 1)
    BY <1>4, <1>11, <2>2, OneIs DEF CuesOK
  <2> QED
    BY <2>3
<1>12. CASE ~(a <= 1) /\ d > 5
  <2>1. p = <<>> /\ q = <<>>
    BY <1>5, <1>12
  <2>2. s = <<>>
    BY <1>6, <2>1, Joined
  <2>3. CuesOK(s, i, a, d, 0)
    BY <1>12, <2>2, NoneIs DEF CuesOK
  <2> QED
    BY <2>3
<1> QED
  BY <1>7, <1>8, <1>9, <1>10, <1>11, <1>12

\* A cue's place in the order of urgency.
RankOf(q) == IF q.kind = "expired" THEN 0 ELSE IF q.kind = "expiring" THEN 1 ELSE 2
LEMMA RankIs == ASSUME NEW q PROVE K!rank(q) = RankOf(q) /\ RankOf(q) \in Int
  BY DEF K!rank, RankOf

\* Index i comes before j by rank and date, else as they are.
Before(rk, dy, i, j) == rk[i] < rk[j] \/ (rk[i] = rk[j] /\ (dy[i] < dy[j] \/ (dy[i] = dy[j] /\ i <= j)))

\* The order of a list's indexes by urgency is total.
LEMMA UrgencyTotal ==
    ASSUME NEW N \in Nat, NEW all, DOMAIN all = 1..N, \A k \in 1..N : all[k].days \in Int
    PROVE  /\ TotalOn(K!Urgency(all), 1..N)
           /\ \A i, j \in 1..N : <<i, j>> \in K!Urgency(all) =>
                 /\ RankOf(all[i]) <= RankOf(all[j])
                 /\ RankOf(all[i]) = RankOf(all[j]) => all[i].days <= all[j].days
<1>1. PICK rk, dy : rk = [k \in 1..N |-> RankOf(all[k])] /\ dy = [k \in 1..N |-> all[k].days]
  OBVIOUS
<1>2. rk \in [1..N -> Int] /\ dy \in [1..N -> Int]
  BY <1>1, RankIs
<1>3. \A i, j \in 1..N : K!Precedes(all[i], all[j]) <=> (rk[i] < rk[j] \/ (rk[i] = rk[j] /\ dy[i] < dy[j]))
  BY <1>1, RankIs DEF K!Precedes
<1>4. PICK way : way = K!Urgency(all)
  OBVIOUS
<1>5. \A i, j \in 1..N : <<i, j>> \in way <=> Before(rk, dy, i, j)
  <2>1. \A i, j \in 1..N : <<i, j>> \in way <=> (K!Precedes(all[i], all[j]) \/ (~K!Precedes(all[j], all[i]) /\ i <= j))
    BY <1>4 DEF K!Urgency
  <2>2. ASSUME NEW i \in 1..N, NEW j \in 1..N
        PROVE  (K!Precedes(all[i], all[j]) \/ (~K!Precedes(all[j], all[i]) /\ i <= j)) <=> Before(rk, dy, i, j)
    <3>1. rk[i] \in Int /\ rk[j] \in Int /\ dy[i] \in Int /\ dy[j] \in Int
      BY <1>2
    <3>2. K!Precedes(all[i], all[j]) <=> (rk[i] < rk[j] \/ (rk[i] = rk[j] /\ dy[i] < dy[j]))
      BY <1>3
    <3>3. K!Precedes(all[j], all[i]) <=> (rk[j] < rk[i] \/ (rk[j] = rk[i] /\ dy[j] < dy[i]))
      BY <1>3
    <3> QED
      BY <3>1, <3>2, <3>3 DEF Before
  <2> QED
    BY <2>1, <2>2
<1>6. TotalOn(way, 1..N)
  <2>0. \A k \in 1..N : rk[k] \in Int /\ dy[k] \in Int
    BY <1>2
  <2>1. \A x, y \in 1..N : <<x, y>> \in way \/ <<y, x>> \in way
    <3> SUFFICES ASSUME NEW x \in 1..N, NEW y \in 1..N PROVE Before(rk, dy, x, y) \/ Before(rk, dy, y, x)
      BY <1>5
    <3>1. rk[x] \in Int /\ rk[y] \in Int /\ dy[x] \in Int /\ dy[y] \in Int
      BY <2>0
    <3> QED
      BY <3>1 DEF Before
  <2>2. \A x, y \in 1..N : <<x, y>> \in way /\ <<y, x>> \in way => x = y
    <3> SUFFICES ASSUME NEW x \in 1..N, NEW y \in 1..N, Before(rk, dy, x, y), Before(rk, dy, y, x) PROVE x = y
      BY <1>5
    <3>1. rk[x] \in Int /\ rk[y] \in Int /\ dy[x] \in Int /\ dy[y] \in Int
      BY <2>0
    <3> QED
      BY <3>1 DEF Before
  <2>3. \A x, y, z \in 1..N : <<x, y>> \in way /\ <<y, z>> \in way => <<x, z>> \in way
    <3> SUFFICES ASSUME NEW x \in 1..N, NEW y \in 1..N, NEW z \in 1..N, Before(rk, dy, x, y), Before(rk, dy, y, z)
                 PROVE  Before(rk, dy, x, z)
      BY <1>5
    <3>1. /\ rk[x] \in Int /\ rk[y] \in Int /\ rk[z] \in Int
          /\ dy[x] \in Int /\ dy[y] \in Int /\ dy[z] \in Int
      BY <2>0
    <3> QED
      BY <3>1 DEF Before
  <2> QED
    BY <2>1, <2>2, <2>3 DEF TotalOn
<1>7. \A i, j \in 1..N : <<i, j>> \in way => rk[i] <= rk[j] /\ (rk[i] = rk[j] => dy[i] <= dy[j])
  <2> SUFFICES ASSUME NEW i \in 1..N, NEW j \in 1..N, Before(rk, dy, i, j)
               PROVE  rk[i] <= rk[j] /\ (rk[i] = rk[j] => dy[i] <= dy[j])
    BY <1>5
  <2>1. rk[i] \in Int /\ rk[j] \in Int /\ dy[i] \in Int /\ dy[j] \in Int
    BY <1>2
  <2> QED
    BY <2>1 DEF Before
<1> QED
  BY <1>1, <1>4, <1>6, <1>7

\* For any pantry records, the cues are those of the records, the urgent first (computePantryCues).
THEOREM CuesOfAll ==
    ASSUME NEW N \in Nat, NEW records, DOMAIN records = 1..N,
           \A k \in 1..N : records[k].amount \in Int /\ records[k].days \in Int,
           \A j, k \in 1..N : records[j].id = records[k].id => j = k
    PROVE  K!CuesAreOf(records)
<1>1. PICK ss : ss = [k \in 1..N |-> K!CuesOf(records[k])]
  OBVIOUS
<1>2. \A k \in 1..N : \E n \in Nat : CuesOK(ss[k], records[k].id, records[k].amount, records[k].days, n)
  <2> SUFFICES ASSUME NEW k \in 1..N
               PROVE  \E n \in Nat : CuesOK(ss[k], records[k].id, records[k].amount, records[k].days, n)
    OBVIOUS
  <2>1. PICK r, s, i : r = records[k] /\ s = ss[k] /\ i = r.id
    OBVIOUS
  <2>2. PICK a \in Int, d \in Int : a = r.amount /\ d = r.days
    BY <2>1
  <2>3. s = K!CuesOf(r)
    BY <1>1, <2>1
  <2>4. \E n \in Nat : CuesOK(s, i, a, d, n)
    BY <2>1, <2>2, <2>3, CuesOfIs
  <2> QED
    BY <2>1, <2>2, <2>4
<1>3. \A k \in 1..N : ss[k] \in Seq(Elements(ss[k]))
  <2> SUFFICES ASSUME NEW k \in 1..N PROVE ss[k] \in Seq(Elements(ss[k]))
    OBVIOUS
  <2>1. PICK n \in Nat : CuesOK(ss[k], records[k].id, records[k].amount, records[k].days, n)
    BY <1>2
  <2>2. PICK s : s = ss[k]
    OBVIOUS
  <2>3. s = [i \in 1..n |-> s[i]]
    BY <2>1, <2>2 DEF CuesOK
  <2>4. s \in Seq(Elements(s))
    BY <2>3, FunctionIsList
  <2> QED
    BY <2>2, <2>4
<1>4. DOMAIN ss = 1..N
  BY <1>1
<1>5. PICK P, all, at : P = Cells(ss) /\ all = Flattened(ss) /\ at = Spots(ss)
  OBVIOUS
<1>6. Picks(all, There(ss), at, P)
  BY <1>3, <1>4, <1>5, FlattenedIs
<1>7. /\ \A x \in P : x[1] \in 1..N /\ x[2] \in 1..Len(ss[x[1]]) /\ DOMAIN ss[x[1]] = 1..Len(ss[x[1]])
      /\ \A g \in 1..N : \A k \in 1..Len(ss[g]) : <<g, k>> \in P
  BY <1>3, <1>4, <1>5, CellsAre
<1>8. PICK Q \in Nat : Q = Cardinality(P) /\ DOMAIN all = 1..Q
  BY <1>6 DEF Picks
<1>9. /\ \A n \in 1..Q : at[n] \in P /\ all[n] = There(ss)[at[n]]
      /\ \A x \in P : \E n \in 1..Q : at[n] = x
  BY <1>6, <1>8 DEF Picks
<1>40. \A g \in 1..N : \A i \in DOMAIN ss[g] : CueOK(ss[g][i], records[g].id)
  BY <1>2 DEF CuesOK
<1>41. \A g \in 1..N : /\ (\E i \in DOMAIN ss[g] : ss[g][i].kind = "low") <=> records[g].amount <= 1
                       /\ (\E i \in DOMAIN ss[g] : ss[g][i].kind = "expired") <=> records[g].days < 0
                       /\ (\E i \in DOMAIN ss[g] : ss[g][i].kind = "expiring") <=> records[g].days \in 0..5
  BY <1>2 DEF CuesOK, Kinds
\* What each cue of all is, and that all cues are there.
<1>10. ASSUME NEW n \in 1..Q PROVE \E g \in 1..N : \E i \in DOMAIN ss[g] : all[n] = ss[g][i]
  <2>1. PICK x : x = at[n]
    OBVIOUS
  <2>2. x \in P /\ all[n] = ss[x[1]][x[2]]
    BY <1>5, <1>9, <2>1 DEF There
  <2>3. x[1] \in 1..N /\ x[2] \in DOMAIN ss[x[1]]
    BY <1>7, <2>2
  <2> QED
    BY <2>2, <2>3
<1>11. ASSUME NEW g \in 1..N, NEW i \in DOMAIN ss[g] PROVE \E n \in 1..Q : all[n] = ss[g][i]
  <2>1. DOMAIN ss[g] = 1..Len(ss[g])
    <3>1. PICK s : s = ss[g] /\ s \in Seq(Elements(s))
      BY <1>3
    <3> QED
      BY <3>1, LenProperties
  <2>2. PICK x : x = <<g, i>>
    OBVIOUS
  <2>3. x \in P /\ x[1] = g /\ x[2] = i
    BY <1>7, <2>1, <2>2
  <2>4. PICK n \in 1..Q : at[n] = x
    BY <1>9, <2>3
  <2>5. all[n] = There(ss)[x]
    BY <1>9, <2>4
  <2> QED
    BY <1>5, <2>3, <2>5 DEF There
<1>12. \A n \in 1..Q : all[n].days \in Int
  <2> SUFFICES ASSUME NEW n \in 1..Q PROVE all[n].days \in Int
    OBVIOUS
  <2>1. PICK g \in 1..N : \E i \in DOMAIN ss[g] : all[n] = ss[g][i]
    BY <1>10
  <2> QED
    BY <1>40, <2>1 DEF CueOK
<1>13. PICK way : way = K!Urgency(all)
  OBVIOUS
<1>14. /\ TotalOn(way, 1..Q)
       /\ \A i, j \in 1..Q : <<i, j>> \in way =>
             /\ RankOf(all[i]) <= RankOf(all[j])
             /\ RankOf(all[i]) = RankOf(all[j]) => all[i].days <= all[j].days
  BY <1>8, <1>12, <1>13, UrgencyTotal
<1>15. PICK cues, to : cues = Arranged(all, way) /\ to = From(all, way)
  OBVIOUS
<1>16. Picks(cues, all, to, 1..Q) /\ Cardinality(1..Q) = Q
       /\ \A m, n \in 1..Q : m < n => to[m] # to[n] /\ <<to[m], to[n]>> \in way
  BY <1>8, <1>14, <1>15, ArrangedIs
<1>17. /\ DOMAIN cues = 1..Q /\ \A n \in 1..Q : to[n] \in 1..Q /\ cues[n] = all[to[n]]
       /\ \A k \in 1..Q : \E n \in 1..Q : to[n] = k
  BY <1>16 DEF Picks
<1>18. cues = K!computePantryCues(records)
  <2>1. [k \in DOMAIN records |-> K!CuesOf(records[k])] = ss
    BY <1>1
  <2> QED
    BY <1>5, <1>13, <1>15, <2>1, KitchenLists DEF K!computePantryCues
<1>19. ASSUME NEW g \in 1..N, NEW kind
       PROVE  (\E n \in 1..Q : cues[n].id = records[g].id /\ cues[n].kind = kind)
                <=> \E i \in DOMAIN ss[g] : ss[g][i].kind = kind
  <2>1. ASSUME NEW n \in 1..Q, cues[n].id = records[g].id, cues[n].kind = kind
        PROVE  \E i \in DOMAIN ss[g] : ss[g][i].kind = kind
    <3>1. PICK m \in 1..Q : cues[n] = all[m]
      BY <1>17
    <3>2. PICK h \in 1..N : \E i \in DOMAIN ss[h] : all[m] = ss[h][i]
      BY <1>10
    <3>3. PICK i \in DOMAIN ss[h] : all[m] = ss[h][i]
      BY <3>2
    <3>4. ss[h][i].id = records[h].id
      BY <1>40 DEF CueOK
    <3>5. h = g
      BY <2>1, <3>1, <3>3, <3>4
    <3> QED
      BY <2>1, <3>1, <3>3, <3>5
  <2>2. ASSUME NEW i \in DOMAIN ss[g], ss[g][i].kind = kind
        PROVE  \E n \in 1..Q : cues[n].id = records[g].id /\ cues[n].kind = kind
    <3>1. PICK m \in 1..Q : all[m] = ss[g][i]
      BY <1>11
    <3>2. PICK n \in 1..Q : to[n] = m
      BY <1>17
    <3>3. cues[n] = ss[g][i]
      BY <1>17, <3>1, <3>2
    <3>4. ss[g][i].id = records[g].id
      BY <1>40 DEF CueOK
    <3> QED
      BY <2>2, <3>3, <3>4
  <2> QED
    BY <2>1, <2>2
<1>20. ASSUME NEW r \in Elements(records)
       PROVE  /\ (\E n \in DOMAIN cues : cues[n].id = r.id /\ cues[n].kind = "low") <=> r.amount <= 1
              /\ (\E n \in DOMAIN cues : cues[n].id = r.id /\ cues[n].kind = "expired") <=> r.days < 0
              /\ (\E n \in DOMAIN cues : cues[n].id = r.id /\ cues[n].kind = "expiring") <=> r.days \in 0..5
  <2>1. PICK g \in 1..N : r = records[g]
    BY DEF Elements
  <2>2. /\ (\E i \in DOMAIN ss[g] : ss[g][i].kind = "low") <=> r.amount <= 1
        /\ (\E i \in DOMAIN ss[g] : ss[g][i].kind = "expired") <=> r.days < 0
        /\ (\E i \in DOMAIN ss[g] : ss[g][i].kind = "expiring") <=> r.days \in 0..5
    BY <1>41, <2>1
  <2>3. \A kind : (\E n \in DOMAIN cues : cues[n].id = r.id /\ cues[n].kind = kind)
                     <=> \E i \in DOMAIN ss[g] : ss[g][i].kind = kind
    <3>1. DOMAIN cues = 1..Q
      BY <1>17
    <3>2. \A kind : (\E n \in 1..Q : cues[n].id = records[g].id /\ cues[n].kind = kind)
                     <=> \E i \in DOMAIN ss[g] : ss[g][i].kind = kind
      BY <1>19
    <3> QED
      BY <2>1, <3>1, <3>2
  <2> QED
    BY <2>2, <2>3
<1>21. ASSUME NEW m \in 1..Q, NEW n \in 1..Q, m < n
       PROVE  /\ K!rank(cues[m]) <= K!rank(cues[n])
              /\ K!rank(cues[m]) = K!rank(cues[n]) => cues[m].days <= cues[n].days
  <2>1. PICK i, j : i = to[m] /\ j = to[n]
    OBVIOUS
  <2>2. i \in 1..Q /\ j \in 1..Q /\ <<i, j>> \in way /\ cues[m] = all[i] /\ cues[n] = all[j]
    BY <1>16, <1>17, <1>21, <2>1
  <2> QED
    BY <1>14, <2>2, RankIs
<1>22. \A s : K!Elements(s) = Elements(s)
  BY KitchenLists
<1>23. \A r \in K!Elements(records) :
          /\ (\E n \in DOMAIN cues : cues[n].id = r.id /\ cues[n].kind = "low") <=> r.amount <= 1
          /\ (\E n \in DOMAIN cues : cues[n].id = r.id /\ cues[n].kind = "expired") <=> r.days < 0
          /\ (\E n \in DOMAIN cues : cues[n].id = r.id /\ cues[n].kind = "expiring") <=> r.days \in 0..5
  BY <1>20, <1>22
<1>24. \A m, n \in DOMAIN cues : m < n => /\ K!rank(cues[m]) <= K!rank(cues[n])
                                          /\ K!rank(cues[m]) = K!rank(cues[n]) => cues[m].days <= cues[n].days
  BY <1>17, <1>21
<1> QED
  BY <1>18, <1>23, <1>24 DEF K!CuesAreOf


\* The distinct elements of a list.
LEMMA NamesAre ==
    ASSUME NEW N \in Nat, NEW s, DOMAIN s = 1..N, NEW names, names = K!Names(s)
    PROVE  Once(names) /\ Elements(names) = Elements(s)
<1>1. PICK T, at : T = {k \in 1..N : \A j \in 1..k - 1 : s[j] # s[k]} /\ at = Indexes(T)
  OBVIOUS
<1>2. names = Filtered(s, T) /\ T \in SUBSET (1..N)
  BY <1>1, KitchenLists DEF K!Names
<1>3. Picks(names, s, at, T)
  BY <1>1, <1>2, FilteredIs
<1>4. \A x, y \in T : s[x] = s[y] => x = y
  <2> SUFFICES ASSUME NEW x \in T, NEW y \in T, s[x] = s[y] PROVE x = y
    OBVIOUS
  <2>1. x \in 1..N /\ y \in 1..N
    BY <1>1
  <2>2. ~(x < y)
    <3> SUFFICES ASSUME x < y PROVE FALSE
      OBVIOUS
    <3>1. x \in 1..y - 1
      BY <2>1
    <3> QED
      BY <1>1, <3>1
  <2>3. ~(y < x)
    <3> SUFFICES ASSUME y < x PROVE FALSE
      OBVIOUS
    <3>1. y \in 1..x - 1
      BY <2>1
    <3> QED
      BY <1>1, <3>1
  <2> QED
    BY <2>1, <2>2, <2>3
<1>5. Once(names)
  BY <1>3, <1>4, PicksOnce
<1>6. Elements(names) = {s[x] : x \in T}
  BY <1>3 DEF Picks
<1>7. \A x \in Elements(s) : \E k \in T : s[k] = x
  <2> SUFFICES ASSUME NEW x \in Elements(s) PROVE \E k \in T : s[k] = x
    OBVIOUS
  <2>1. PICK k \in 1..N : s[k] = x /\ \A j \in 1..k - 1 : s[j] # x
    BY FirstPlace
  <2> QED
    BY <1>1, <2>1
<1>8. \A k \in T : s[k] \in Elements(s)
  BY <1>2 DEF Elements
<1> QED
  BY <1>5, <1>6, <1>7, <1>8

\* The recipes of an item: all its sources but the staple.
LEMMA RecipesAre ==
    ASSUME NEW it, Once(it.sources), NEW t, t = K!recipeNames(it)
    PROVE  /\ Once(t) /\ Elements(t) = {x \in Elements(it.sources) : x # K!Staple}
           /\ Len(t) < Len(it.sources) <=> K!Staple \in Elements(it.sources)
<1>1. PICK s : s = it.sources
  OBVIOUS
<1>2. PICK N \in Nat : N = Len(s) /\ DOMAIN s = 1..N
  BY <1>1 DEF Once
<1>3. PICK T, at : T = {k \in 1..N : s[k] # K!Staple} /\ at = Indexes(T)
  OBVIOUS
<1>4. t = Filtered(s, T) /\ T \in SUBSET (1..N) /\ T \in SUBSET DOMAIN s
  BY <1>1, <1>2, <1>3, KitchenLists DEF K!recipeNames
<1>5. Picks(t, s, at, T)
  BY <1>3, <1>4, FilteredIs
<1>6. Once(t) /\ Elements(t) = {s[k] : k \in T}
  <2>1. Once(s)
    BY <1>1
  <2>2. T \in SUBSET DOMAIN s
    BY <1>4
  <2>3. t = Filtered(s, T)
    BY <1>4
  <2> QED
    BY <2>1, <2>2, <2>3, OnceFiltered
<1>7. Elements(t) = {x \in Elements(s) : x # K!Staple}
  BY <1>2, <1>3, <1>6 DEF Elements
<1>8. Len(t) = Cardinality(T) /\ Cardinality(T) \in Nat
  BY <1>5 DEF Picks
<1>9. IsFiniteSet(1..N) /\ Cardinality(1..N) = N
  BY FS_Interval
<1>10. CASE K!Staple \in Elements(s)
  <2>1. PICK k \in 1..N : s[k] = K!Staple
    BY <1>2, <1>10 DEF Elements
  <2>2. T # 1..N
    BY <1>3, <2>1
  <2>3. Cardinality(T) < Cardinality(1..N)
    <3>1. PICK U : U = 1..N
      OBVIOUS
    <3>2. IsFiniteSet(U) /\ T \in SUBSET U /\ T # U
      BY <1>4, <1>9, <2>2, <3>1
    <3>3. Cardinality(T) <= Cardinality(U) /\ Cardinality(U) # Cardinality(T)
      BY <3>2, FS_Subset
    <3> QED
      BY <1>8, <1>9, <3>1, <3>3
  <2> QED
    BY <1>1, <1>2, <1>6, <1>7, <1>8, <1>9, <1>10, <2>3
<1>11. CASE K!Staple \notin Elements(s)
  <2>1. \A k \in 1..N : s[k] # K!Staple
    BY <1>2, <1>11 DEF Elements
  <2>2. T = 1..N
    BY <1>3, <2>1
  <2> QED
    BY <1>1, <1>2, <1>6, <1>7, <1>8, <1>9, <1>11, <2>2
<1> QED
  BY <1>10, <1>11

\* Where an item of a category goes by recipe.
Under(cat, it) ==
    IF cat.pantry \/ K!Staple \in Elements(it.sources) THEN {"Pantry staples"}
    ELSE IF Elements(it.sources) = {} THEN {"Other"} ELSE Elements(it.sources)

LEMMA BucketsAre ==
    ASSUME NEW cat, NEW it, Once(it.sources), NEW t, t = K!Buckets(cat, it)
    PROVE  Once(t) /\ Elements(t) = Under(cat, it)
<1>1. K!isPantry(cat, it) <=> cat.pantry \/ K!Staple \in Elements(it.sources)
  BY DEF K!isPantry, Elements
<1>2. PICK names : names = K!recipeNames(it)
  OBVIOUS
<1>3. Once(names) /\ Elements(names) = {x \in Elements(it.sources) : x # K!Staple}
  BY <1>2, RecipesAre
<1>4. CASE cat.pantry \/ K!Staple \in Elements(it.sources)
  <2>1. t = <<"Pantry staples">>
    BY <1>1, <1>4 DEF K!Buckets
  <2> QED
    BY <1>4, <2>1, OnceOfOne DEF Under
<1>5. CASE ~(cat.pantry \/ K!Staple \in Elements(it.sources))
  <2>1. Elements(names) = Elements(it.sources)
    BY <1>3, <1>5
  <2>2. names = <<>> <=> Elements(names) = {}
    <3>1. Elements(names) = {} => names = <<>>
      <4> SUFFICES ASSUME Elements(names) = {} PROVE names = <<>>
        OBVIOUS
      <4>1. names \in Seq({})
        BY <1>3 DEF Once
      <4> QED
        BY <4>1
    <3> QED
      BY <3>1, OnceOfNone
  <2>3. t = (IF names = <<>> THEN <<"Other">> ELSE names)
    BY <1>1, <1>2, <1>5 DEF K!Buckets
  <2> QED
    BY <1>3, <1>5, <2>1, <2>2, <2>3, OnceOfOne DEF Under
<1> QED
  BY <1>4, <1>5

\* Items of a list: each with an id and an order, and its recipes once each.
ItemsOK(items) ==
    /\ Once(items)
    /\ \A it \in Elements(items) : it.order \in Int /\ Once(it.sources)
    /\ \A it, jt \in Elements(items) : it.id = jt.id => it = jt

\* Categories of the items: each item once, in the category of its aisle.
CategoriesOK(cats, items) ==
    \E D \in Nat :
        /\ DOMAIN cats = 1..D
        /\ \A c \in 1..D : /\ Once(cats[c].items)
                           /\ Elements(cats[c].items) = {it \in Elements(items) : it.aisle = cats[c].name}
                           /\ cats[c].pantry <=> cats[c].name = "pantry"
        /\ \A c, d \in 1..D : cats[c].name = cats[d].name => c = d
        /\ \A it \in Elements(items) : \E c \in 1..D : cats[c].name = it.aisle

\* The items by their order.
LEMMA SortedItems ==
    ASSUME NEW items, ItemsOK(items), NEW t, t = K!BySortOrder(items)
    PROVE  Once(t) /\ Elements(t) = Elements(items)
<1>1. PICK N \in Nat : DOMAIN items = 1..N
  BY DEF ItemsOK, Once
<1>2. PICK key : key = [k \in 1..N |-> items[k].order]
  OBVIOUS
<1>3. key \in [1..N -> Int]
  <2>1. \A k \in 1..N : items[k] \in Elements(items)
    BY <1>1 DEF Elements
  <2>2. \A k \in 1..N : items[k].order \in Int
    BY <2>1 DEF ItemsOK
  <2> QED
    BY <1>2, <2>2
<1>4. t = Arranged(items, ByKey(key))
  BY <1>1, <1>2, KitchenLists DEF K!BySortOrder
<1> QED
  BY <1>1, <1>3, <1>4, OnceSorted DEF ItemsOK

\* The categories are such categories.
LEMMA CategoriesAre ==
    ASSUME NEW items, ItemsOK(items), NEW cats, cats = K!apiShoppingListToShopping(items)
    PROVE  CategoriesOK(cats, items)
<1>1. PICK sorted : sorted = K!BySortOrder(items)
  OBVIOUS
<1>2. Once(sorted) /\ Elements(sorted) = Elements(items)
  BY <1>1, SortedItems
<1>3. PICK N \in Nat : DOMAIN sorted = 1..N
  BY <1>2 DEF Once
<1>4. PICK of : of = [k \in 1..N |-> sorted[k].aisle]
  OBVIOUS
<1>5. PICK aisles : aisles = K!Names(of)
  OBVIOUS
<1>6. Once(aisles) /\ Elements(aisles) = Elements(of)
  BY <1>4, <1>5, NamesAre
<1>7. PICK D \in Nat : DOMAIN aisles = 1..D
  BY <1>6 DEF Once
<1> DEFINE have(x) == Filtered(sorted, {k \in 1..N : sorted[k].aisle = x})
<1>8. cats = [c \in 1..D |-> [name |-> aisles[c], pantry |-> aisles[c] = "pantry", items |-> have(aisles[c])]]
  <2>1. [k \in DOMAIN sorted |-> sorted[k].aisle] = of
    BY <1>3, <1>4
  <2>2. \A x : K!Filtered(sorted, {k \in DOMAIN sorted : sorted[k].aisle = x}) = have(x)
    BY <1>3, KitchenLists
  <2> HIDE DEF have
  <2>3. cats = [c \in DOMAIN aisles |-> [name |-> aisles[c], pantry |-> aisles[c] = "pantry",
                   items |-> K!Filtered(sorted, {k \in DOMAIN sorted : sorted[k].aisle = aisles[c]})]]
    BY <1>1, <1>5, <2>1 DEF K!apiShoppingListToShopping
  <2> QED
    BY <1>7, <2>2, <2>3
<1>9. ASSUME NEW c \in 1..D
      PROVE  /\ Once(cats[c].items) /\ cats[c].name = aisles[c]
             /\ Elements(cats[c].items) = {it \in Elements(items) : it.aisle = cats[c].name}
             /\ cats[c].pantry <=> cats[c].name = "pantry"
  <2>1. PICK T : T = {k \in 1..N : sorted[k].aisle = aisles[c]}
    OBVIOUS
  <2>2. PICK t : t = Filtered(sorted, T)
    OBVIOUS
  <2>3. PICK cat : cat = [name |-> aisles[c], pantry |-> aisles[c] = "pantry", items |-> t]
    OBVIOUS
  <2>4. cats[c] = cat
    BY <1>8, <2>1, <2>2, <2>3
  <2>5. cat.name = aisles[c] /\ (cat.pantry <=> aisles[c] = "pantry") /\ cat.items = t
    BY <2>3
  <2>6. T \in SUBSET DOMAIN sorted
    BY <1>3, <2>1
  <2>7. Once(t) /\ Elements(t) = {sorted[k] : k \in T}
    BY <1>2, <2>2, <2>6, OnceFiltered
  <2>8. Elements(t) = {it \in Elements(sorted) : it.aisle = aisles[c]}
    BY <1>3, <2>1, <2>7 DEF Elements
  <2> QED
    BY <1>2, <2>4, <2>5, <2>7, <2>8
<1>10. \A c, d \in 1..D : cats[c].name = cats[d].name => c = d
  <2>1. \A c, d \in 1..D : aisles[c] = aisles[d] => c = d
    BY <1>6, <1>7 DEF Once
  <2> HIDE DEF have
  <2>2. \A c \in 1..D : cats[c].name = aisles[c]
    BY <1>9
  <2> QED
    BY <2>1, <2>2
<1>11. ASSUME NEW it \in Elements(items) PROVE \E c \in 1..D : cats[c].name = it.aisle
  <2>1. PICK k \in 1..N : it = sorted[k]
    BY <1>2, <1>3 DEF Elements
  <2>2. it.aisle \in Elements(of)
    BY <1>4, <2>1 DEF Elements
  <2>3. PICK c \in 1..D : aisles[c] = it.aisle
    BY <1>6, <1>7, <2>2 DEF Elements
  <2> QED
    BY <1>9, <2>3
<1>12. DOMAIN cats = 1..D
  BY <1>8
<1> QED
  BY <1>9, <1>10, <1>11, <1>12 DEF CategoriesOK

\* Groups that hold an item at most once each hold it as often as there are groups with it.
LEMMA TimesAre ==
    ASSUME NEW groups, NEW D \in Nat, DOMAIN groups = 1..D, NEW items, ItemsOK(items),
           \A g \in 1..D : Once(groups[g].items) /\ Elements(groups[g].items) \subseteq Elements(items),
           NEW it \in Elements(items)
    PROVE  K!Times(groups, it.id) = Cardinality({g \in 1..D : it \in Elements(groups[g].items)})
<1>1. PICK ss : ss = [g \in 1..D |-> groups[g].items]
  OBVIOUS
<1>2. \A g \in 1..D : ss[g] = groups[g].items /\ Once(ss[g]) /\ Elements(ss[g]) \subseteq Elements(items)
  BY <1>1
<1>3. \A g \in 1..D : ss[g] \in Seq(Elements(ss[g]))
  BY <1>2 DEF Once
<1>4. PICK P : P = Cells(ss)
  OBVIOUS
<1>5. /\ \A x \in P : x[1] \in 1..D /\ x[2] \in 1..Len(ss[x[1]]) /\ DOMAIN ss[x[1]] = 1..Len(ss[x[1]])
      /\ \A g \in 1..D : \A k \in 1..Len(ss[g]) : <<g, k>> \in P
  <2>1. DOMAIN ss = 1..D
    BY <1>1
  <2> QED
    BY <1>3, <1>4, <2>1, CellsAre
<1>6. PICK A, B : A = {x \in P : ss[x[1]][x[2]].id = it.id} /\ B = {g \in 1..D : it \in Elements(ss[g])}
  OBVIOUS
<1>7. K!Times(groups, it.id) = Cardinality(A)
  <2>1. [g \in DOMAIN groups |-> groups[g].items] = ss
    BY <1>1
  <2>2. K!Cells(ss) = P
    BY <1>4, KitchenLists
  <2>3. {x \in P : groups[x[1]].items[x[2]].id = it.id} = A
    BY <1>2, <1>5, <1>6
  <2>4. K!Times(groups, it.id) = K!Cardinality(A)
    BY <2>1, <2>2, <2>3 DEF K!Times
  <2> QED
    BY <2>4 DEF K!Cardinality, Cardinality
\* Every place of the item's id is a place of the item.
<1>8. ASSUME NEW x \in A PROVE x[1] \in 1..D /\ x[2] \in DOMAIN ss[x[1]] /\ ss[x[1]][x[2]] = it
  <2>1. x[1] \in 1..D /\ x[2] \in DOMAIN ss[x[1]] /\ ss[x[1]][x[2]].id = it.id
    BY <1>5, <1>6
  <2>2. ss[x[1]][x[2]] \in Elements(ss[x[1]])
    BY <2>1 DEF Elements
  <2>3. ss[x[1]][x[2]] \in Elements(items)
    BY <1>2, <2>1, <2>2
  <2> QED
    BY <2>1, <2>3 DEF ItemsOK
<1>9. PICK f : f = [x \in A |-> x[1]]
  OBVIOUS
<1>10. ASSUME NEW x \in A PROVE f[x] \in B
  <2>1. it \in Elements(ss[x[1]])
    BY <1>8 DEF Elements
  <2> QED
    BY <1>6, <1>8, <1>9, <2>1
<1>11. ASSUME NEW x \in A, NEW y \in A, f[x] = f[y] PROVE x = y
  <2>1. PICK g : g = x[1] /\ g = y[1]
    BY <1>9, <1>11
  <2>2. g \in 1..D /\ x[2] \in DOMAIN ss[g] /\ y[2] \in DOMAIN ss[g] /\ ss[g][x[2]] = ss[g][y[2]]
    BY <1>8, <2>1
  <2>3. x[2] = y[2]
    BY <1>2, <2>2 DEF Once
  <2>4. x = <<x[1], x[2]>> /\ y = <<y[1], y[2]>>
    <3>1. x \in P /\ y \in P
      BY <1>6
    <3>2. P \in SUBSET (Int \X Int)
      <4>1. DOMAIN ss = 1..D
        BY <1>1
      <4> QED
        BY <1>3, <1>4, <4>1, CellsAre
    <3> QED
      BY <3>1, <3>2
  <2> QED
    BY <2>1, <2>3, <2>4
<1>12. ASSUME NEW g \in B PROVE \E x \in A : f[x] = g
  <2>1. g \in 1..D /\ it \in Elements(ss[g])
    BY <1>6
  <2>2. PICK k \in DOMAIN ss[g] : ss[g][k] = it
    BY <2>1 DEF Elements
  <2>3. k \in 1..Len(ss[g])
    BY <1>2, <2>1, <2>2 DEF Once
  <2>4. PICK x : x = <<g, k>>
    OBVIOUS
  <2>5. x \in P /\ x[1] = g /\ x[2] = k
    BY <1>5, <2>1, <2>3, <2>4
  <2>6. x \in A
    BY <1>6, <2>2, <2>5
  <2> QED
    BY <1>9, <2>5, <2>6
<1>13. f \in Bijection(A, B)
  <2>1. f \in [A -> B]
    BY <1>9, <1>10
  <2>2. f \in Injection(A, B)
    BY <1>11, <2>1 DEF Injection, IsInjective
  <2>3. f \in Surjection(A, B)
    BY <1>12, <2>1 DEF Surjection
  <2> QED
    BY <2>2, <2>3 DEF Bijection
<1>14. IsFiniteSet(B)
  <2>1. IsFiniteSet(1..D)
    BY FS_Interval
  <2>2. B \in SUBSET (1..D)
    BY <1>6
  <2> QED
    BY <2>1, <2>2, FS_Subset
<1>15. IsFiniteSet(A)
  <2>1. f \in Injection(A, B)
    BY <1>13 DEF Bijection
  <2> QED
    BY <1>14, <2>1, FS_Injection
<1>16. Cardinality(B) = Cardinality(A)
  <2>1. ExistsBijection(A, B)
    BY <1>13 DEF ExistsBijection
  <2> QED
    BY <1>15, <2>1, FS_Bijection
<1>17. B = {g \in 1..D : it \in Elements(groups[g].items)}
  BY <1>2, <1>6
<1> QED
  BY <1>7, <1>16, <1>17

\* By aisle.
LEMMA OnceByAisle ==
    ASSUME NEW items, ItemsOK(items), NEW cats, CategoriesOK(cats, items), NEW it \in Elements(items)
    PROVE  K!Times(K!groupShopping(cats, "aisle"), it.id) = 1
<1>1. PICK D \in Nat :
        /\ DOMAIN cats = 1..D
        /\ \A c \in 1..D : /\ Once(cats[c].items)
                           /\ Elements(cats[c].items) = {x \in Elements(items) : x.aisle = cats[c].name}
                           /\ cats[c].pantry <=> cats[c].name = "pantry"
        /\ \A c, d \in 1..D : cats[c].name = cats[d].name => c = d
        /\ \A x \in Elements(items) : \E c \in 1..D : cats[c].name = x.aisle
  BY DEF CategoriesOK
<1>2. K!groupShopping(cats, "aisle") = cats
  BY DEF K!groupShopping
<1>3. PICK B : B = {c \in 1..D : it \in Elements(cats[c].items)}
  OBVIOUS
<1>4. \A c \in 1..D : it \in Elements(cats[c].items) <=> cats[c].name = it.aisle
  BY <1>1
<1>5. PICK c \in B : \A d \in B : d = c
  BY <1>1, <1>3, <1>4
<1>6. Cardinality(B) = 1
  BY <1>5, OneOnly
<1>7. \A g \in 1..D : Once(cats[g].items) /\ Elements(cats[g].items) \subseteq Elements(items)
  BY <1>1
<1>8. K!Times(cats, it.id) = Cardinality(B)
  BY <1>1, <1>3, <1>7, TimesAre
<1> QED
  BY <1>2, <1>6, <1>8

\* One list of all.
LEMMA FlatIs ==
    ASSUME NEW items, NEW cats, CategoriesOK(cats, items), NEW t, t = K!Flat(cats)
    PROVE  Once(t) /\ Elements(t) = Elements(items)
<1>1. PICK D \in Nat :
        /\ DOMAIN cats = 1..D
        /\ \A c \in 1..D : /\ Once(cats[c].items)
                           /\ Elements(cats[c].items) = {x \in Elements(items) : x.aisle = cats[c].name}
                           /\ cats[c].pantry <=> cats[c].name = "pantry"
        /\ \A c, d \in 1..D : cats[c].name = cats[d].name => c = d
        /\ \A x \in Elements(items) : \E c \in 1..D : cats[c].name = x.aisle
  BY DEF CategoriesOK
<1>2. PICK ss : ss = [c \in 1..D |-> cats[c].items]
  OBVIOUS
<1>3. t = Flattened(ss)
  BY <1>1, <1>2, KitchenLists DEF K!Flat
<1>4. DOMAIN ss = 1..D /\ \A c \in 1..D : Once(ss[c])
  BY <1>1, <1>2
<1>5. \A c \in 1..D : Elements(ss[c]) = {x \in Elements(items) : x.aisle = cats[c].name}
  BY <1>1, <1>2
<1>6. \A c, d \in 1..D : \A e \in Elements(ss[c]) : e \in Elements(ss[d]) => c = d
  BY <1>1, <1>5
<1>7. Once(t) /\ \A e : e \in Elements(t) <=> \E c \in 1..D : e \in Elements(ss[c])
  BY <1>3, <1>4, <1>6, OnceFlattened
<1>8. Elements(t) = Elements(items)
  <2>1. ASSUME NEW e \in Elements(t) PROVE e \in Elements(items)
    <3>1. PICK c \in 1..D : e \in Elements(ss[c])
      BY <1>7
    <3> QED
      BY <1>5, <3>1
  <2>2. ASSUME NEW e \in Elements(items) PROVE e \in Elements(t)
    <3>1. PICK c \in 1..D : cats[c].name = e.aisle
      BY <1>1
    <3>2. e \in Elements(ss[c])
      BY <1>5, <3>1
    <3> QED
      BY <1>7, <3>2
  <2> QED
    BY <2>1, <2>2
<1> QED
  BY <1>7, <1>8

\* Ungrouped.
LEMMA OnceUngrouped ==
    ASSUME NEW items, ItemsOK(items), NEW cats, CategoriesOK(cats, items), NEW it \in Elements(items)
    PROVE  K!Times(K!groupShopping(cats, "manual"), it.id) = 1
<1>1. PICK t : t = K!Flat(cats)
  OBVIOUS
<1>2. Once(t) /\ Elements(t) = Elements(items)
  BY <1>1, FlatIs
<1>3. t # <<>>
  BY <1>2, OnceOfNone
<1>4. PICK one : one = [name |-> "All items", pantry |-> FALSE, items |-> t]
  OBVIOUS
<1>5. one.items = t
  BY <1>4
<1>6. PICK groups : groups = <<one>>
  OBVIOUS
<1>7. K!groupShopping(cats, "manual") = groups
  BY <1>1, <1>3, <1>4, <1>6 DEF K!groupShopping
<1>8. DOMAIN groups = 1..1 /\ groups[1] = one
  BY <1>6
<1>9. \A g \in 1..1 : groups[g] = one
  BY <1>8
<1>10. \A g \in 1..1 : Once(groups[g].items) /\ Elements(groups[g].items) \subseteq Elements(items)
  BY <1>2, <1>5, <1>9
<1>11. PICK B : B = {g \in 1..1 : it \in Elements(groups[g].items)}
  OBVIOUS
<1>12. 1 \in B /\ \A g \in B : g = 1
  BY <1>2, <1>5, <1>9, <1>11
<1>13. Cardinality(B) = 1
  BY <1>12, OneOnly
<1>14. K!Times(groups, it.id) = Cardinality(B)
  BY <1>8, <1>10, <1>11, TimesAre
<1> QED
  BY <1>7, <1>13, <1>14

\* A list's elements, each with the same item.
Tagged(b, it) == [n \in DOMAIN b |-> <<b[n], it>>]
LEMMA TaggedAre ==
    ASSUME NEW b, Once(b), NEW it, NEW t, t = Tagged(b, it)
    PROVE  Once(t) /\ \A p : p \in Elements(t) <=> \E w \in Elements(b) : p = <<w, it>>
<1>1. PICK N \in Nat : DOMAIN b = 1..N /\ \A m, n \in 1..N : b[m] = b[n] => m = n
  BY DEF Once
<1>2. t = [n \in 1..N |-> t[n]] /\ \A n \in 1..N : t[n] = <<b[n], it>>
  BY <1>1 DEF Tagged
<1>3. t \in Seq(Elements(t)) /\ Len(t) = N /\ DOMAIN t = 1..N
  BY <1>2, FunctionIsList
<1>4. \A m, n \in 1..N : t[m] = t[n] => m = n
  <2> SUFFICES ASSUME NEW m \in 1..N, NEW n \in 1..N, t[m] = t[n] PROVE m = n
    OBVIOUS
  <2>1. b[m] = b[n]
    BY <1>2
  <2> QED
    BY <1>1, <2>1
<1>5. Once(t)
  BY <1>3, <1>4 DEF Once
<1>6. \A p : p \in Elements(t) <=> \E n \in 1..N : p = <<b[n], it>>
  BY <1>2, <1>3 DEF Elements
<1>7. \A w : w \in Elements(b) <=> \E n \in 1..N : w = b[n]
  BY <1>1 DEF Elements
<1> QED
  BY <1>5, <1>6, <1>7

\* What a category pushes: each of its items once to each group it goes under.
LEMMA PushesOfAre ==
    ASSUME NEW cat, Once(cat.items), \A it \in Elements(cat.items) : Once(it.sources), NEW t, t = K!PushesOf(cat)
    PROVE  /\ Once(t)
           /\ \A p : p \in Elements(t) <=> \E it \in Elements(cat.items) : \E w \in Under(cat, it) : p = <<w, it>>
<1>1. PICK N \in Nat : DOMAIN cat.items = 1..N /\ \A m, n \in 1..N : cat.items[m] = cat.items[n] => m = n
  BY DEF Once
<1> DEFINE of(it) == Tagged(K!Buckets(cat, it), it)
<1>2. PICK ss : ss = [k \in 1..N |-> of(cat.items[k])]
  OBVIOUS
<1>3. t = Flattened(ss)
  <2>1. \A it : [n \in DOMAIN K!Buckets(cat, it) |-> <<K!Buckets(cat, it)[n], it>>] = of(it)
    BY DEF Tagged
  <2> HIDE DEF of
  <2>2. t = K!Flattened([k \in DOMAIN cat.items |->
              [n \in DOMAIN K!Buckets(cat, cat.items[k]) |-> <<K!Buckets(cat, cat.items[k])[n], cat.items[k]>>]])
    BY DEF K!PushesOf
  <2>3. [k \in DOMAIN cat.items |->
              [n \in DOMAIN K!Buckets(cat, cat.items[k]) |-> <<K!Buckets(cat, cat.items[k])[n], cat.items[k]>>]] = ss
    BY <1>1, <1>2, <2>1
  <2> QED
    BY <2>2, <2>3, KitchenLists
<1>4. ASSUME NEW k \in 1..N
      PROVE  Once(ss[k]) /\ \A p : p \in Elements(ss[k]) <=> \E w \in Under(cat, cat.items[k]) : p = <<w, cat.items[k]>>
  <2>1. PICK it : it = cat.items[k]
    OBVIOUS
  <2>2. it \in Elements(cat.items)
    BY <1>1, <2>1 DEF Elements
  <2>3. PICK b : b = K!Buckets(cat, it)
    OBVIOUS
  <2>4. Once(b) /\ Elements(b) = Under(cat, it)
    BY <2>2, <2>3, BucketsAre
  <2>5. PICK q : q = ss[k]
    OBVIOUS
  <2>6. q = Tagged(b, it)
    BY <1>2, <2>1, <2>3, <2>5
  <2>7. Once(q) /\ \A p : p \in Elements(q) <=> \E w \in Elements(b) : p = <<w, it>>
    BY <2>4, <2>6, TaggedAre
  <2> QED
    BY <2>1, <2>4, <2>5, <2>7
<1> HIDE DEF of
<1>5. \A g, h \in 1..N : \A e \in Elements(ss[g]) : e \in Elements(ss[h]) => g = h
  <2> SUFFICES ASSUME NEW g \in 1..N, NEW h \in 1..N, NEW e \in Elements(ss[g]), e \in Elements(ss[h]) PROVE g = h
    OBVIOUS
  <2>1. e[2] = cat.items[g]
    BY <1>4
  <2>2. e[2] = cat.items[h]
    BY <1>4
  <2> QED
    BY <1>1, <2>1, <2>2
<1>6. DOMAIN ss = 1..N /\ \A k \in 1..N : Once(ss[k])
  BY <1>2, <1>4
<1>7. Once(t) /\ \A p : p \in Elements(t) <=> \E k \in 1..N : p \in Elements(ss[k])
  BY <1>3, <1>5, <1>6, OnceFlattened
<1>8. \A p : p \in Elements(t) <=> \E k \in 1..N : \E w \in Under(cat, cat.items[k]) : p = <<w, cat.items[k]>>
  BY <1>4, <1>7
<1>9. \A it : it \in Elements(cat.items) <=> \E k \in 1..N : it = cat.items[k]
  BY <1>1 DEF Elements
<1> QED
  BY <1>7, <1>8, <1>9

\* Where an item goes by recipe: its recipes, unless it is a staple or of the pantry, or has none.
Placed(it) ==
    IF it.aisle = "pantry" \/ K!Staple \in Elements(it.sources) THEN {"Pantry staples"}
    ELSE IF Elements(it.sources) = {} THEN {"Other"} ELSE Elements(it.sources)

\* All pushes: each item once to each place it goes.
PushedOK(pushed, items) ==
    /\ Once(pushed)
    /\ \A p : p \in Elements(pushed) <=> \E it \in Elements(items) : \E w \in Placed(it) : p = <<w, it>>

LEMMA PushesAre ==
    ASSUME NEW items, ItemsOK(items), NEW cats, CategoriesOK(cats, items), NEW t, t = K!Pushes(cats)
    PROVE  PushedOK(t, items)
<1>1. PICK D \in Nat :
        /\ DOMAIN cats = 1..D
        /\ \A c \in 1..D : /\ Once(cats[c].items)
                           /\ Elements(cats[c].items) = {x \in Elements(items) : x.aisle = cats[c].name}
                           /\ cats[c].pantry <=> cats[c].name = "pantry"
        /\ \A c, d \in 1..D : cats[c].name = cats[d].name => c = d
        /\ \A x \in Elements(items) : \E c \in 1..D : cats[c].name = x.aisle
  BY DEF CategoriesOK
<1>2. PICK ss : ss = [c \in 1..D |-> K!PushesOf(cats[c])]
  OBVIOUS
<1>3. t = Flattened(ss)
  BY <1>1, <1>2, KitchenLists DEF K!Pushes
<1>4. ASSUME NEW c \in 1..D
      PROVE  Once(ss[c]) /\ \A p : p \in Elements(ss[c]) <=>
                \E it \in Elements(items) : it.aisle = cats[c].name /\ \E w \in Placed(it) : p = <<w, it>>
  <2>1. PICK cat, q : cat = cats[c] /\ q = ss[c]
    OBVIOUS
  <2>2. q = K!PushesOf(cat) /\ Once(cat.items)
    BY <1>1, <1>2, <2>1
  <2>3. Elements(cat.items) = {x \in Elements(items) : x.aisle = cat.name} /\ (cat.pantry <=> cat.name = "pantry")
    BY <1>1, <2>1
  <2>4. \A it \in Elements(cat.items) : Once(it.sources)
    BY <2>3 DEF ItemsOK
  <2>5. Once(q) /\ \A p : p \in Elements(q) <=> \E it \in Elements(cat.items) : \E w \in Under(cat, it) : p = <<w, it>>
    BY <2>2, <2>4, PushesOfAre
  <2>6. \A it \in Elements(cat.items) : Under(cat, it) = Placed(it)
    BY <2>3 DEF Under, Placed
  <2>7. \A p : p \in Elements(q) <=> \E it \in Elements(cat.items) : \E w \in Placed(it) : p = <<w, it>>
    BY <2>5, <2>6
  <2> QED
    BY <2>1, <2>3, <2>5, <2>7
<1>5. \A g, h \in 1..D : \A e \in Elements(ss[g]) : e \in Elements(ss[h]) => g = h
  <2> SUFFICES ASSUME NEW g \in 1..D, NEW h \in 1..D, NEW e \in Elements(ss[g]), e \in Elements(ss[h]) PROVE g = h
    OBVIOUS
  <2>1. e[2].aisle = cats[g].name
    BY <1>4
  <2>2. e[2].aisle = cats[h].name
    BY <1>4
  <2> QED
    BY <1>1, <2>1, <2>2
<1>6. DOMAIN ss = 1..D /\ \A c \in 1..D : Once(ss[c])
  BY <1>2, <1>4
<1>7. Once(t) /\ \A p : p \in Elements(t) <=> \E c \in 1..D : p \in Elements(ss[c])
  BY <1>3, <1>5, <1>6, OnceFlattened
<1>8. ASSUME NEW p PROVE p \in Elements(t) <=> \E it \in Elements(items) : \E w \in Placed(it) : p = <<w, it>>
  <2>1. ASSUME NEW it \in Elements(items), NEW w \in Placed(it), p = <<w, it>> PROVE p \in Elements(t)
    <3>1. PICK c \in 1..D : cats[c].name = it.aisle
      BY <1>1
    <3>2. p \in Elements(ss[c])
      BY <1>4, <2>1, <3>1
    <3> QED
      BY <1>7, <3>2
  <2>2. ASSUME p \in Elements(t) PROVE \E it \in Elements(items) : \E w \in Placed(it) : p = <<w, it>>
    <3>1. PICK c \in 1..D : p \in Elements(ss[c])
      BY <1>7, <2>2
    <3> QED
      BY <1>4, <3>1
  <2> QED
    BY <2>1, <2>2
<1> QED
  BY <1>7, <1>8 DEF PushedOK

\* Groups by recipe: one for each place an item goes, with the items that go there.
RecipeGroupsOK(groups, items) ==
    \E D \in Nat :
        /\ DOMAIN groups = 1..D
        /\ \A g \in 1..D : /\ Once(groups[g].items)
                           /\ Elements(groups[g].items) = {it \in Elements(items) : groups[g].name \in Placed(it)}
        /\ \A g, h \in 1..D : groups[g].name = groups[h].name => g = h
        /\ \A it \in Elements(items) : \A w \in Placed(it) : \E g \in 1..D : groups[g].name = w

LEMMA RecipeGroupsAre ==
    ASSUME NEW items, NEW cats, NEW pushed, pushed = K!Pushes(cats), PushedOK(pushed, items),
           NEW groups, groups = K!groupShopping(cats, "recipe")
    PROVE  RecipeGroupsOK(groups, items)
<1>1. PICK N \in Nat : DOMAIN pushed = 1..N
  BY DEF PushedOK, Once
<1>2. Once(pushed) /\ \A p : p \in Elements(pushed) <=> \E it \in Elements(items) : \E w \in Placed(it) : p = <<w, it>>
  BY DEF PushedOK
<1>3. PICK to : to = [k \in 1..N |-> pushed[k][1]]
  OBVIOUS
<1>4. PICK order : order = K!Names(to)
  OBVIOUS
<1>5. Once(order) /\ Elements(order) = Elements(to)
  BY <1>3, <1>4, NamesAre
<1>6. PICK D \in Nat : DOMAIN order = 1..D
  BY <1>5 DEF Once
<1>7. \A k \in 1..N : \E it \in Elements(items) : \E w \in Placed(it) : pushed[k] = <<w, it>>
  <2>1. \A k \in 1..N : pushed[k] \in Elements(pushed)
    BY <1>1 DEF Elements
  <2> QED
    BY <1>2, <2>1
<1> DEFINE own(x) == Filtered(pushed, {k \in 1..N : pushed[k][1] = x})
           theirs(x) == [k \in DOMAIN own(x) |-> own(x)[k][2]]
<1>8. groups = [g \in 1..D |-> [name |-> order[g], pantry |-> order[g] = "Pantry staples", items |-> theirs(order[g])]]
  <2>1. [k \in DOMAIN pushed |-> pushed[k][1]] = to
    BY <1>1, <1>3
  <2>2. \A x : K!Filtered(pushed, {k \in DOMAIN pushed : pushed[k][1] = x}) = own(x)
    BY <1>1, KitchenLists
  <2> HIDE DEF own
  <2> DEFINE group(names, list, g) ==
               LET mine == K!Filtered(list, {k \in DOMAIN list : list[k][1] = names[g]})
               IN  [name |-> names[g], pantry |-> names[g] = "Pantry staples",
                    items |-> [k \in DOMAIN mine |-> mine[k][2]]]
  <2>5. groups = [g \in DOMAIN K!Names([k \in DOMAIN K!Pushes(cats) |-> K!Pushes(cats)[k][1]]) |->
                    group(K!Names([k \in DOMAIN K!Pushes(cats) |-> K!Pushes(cats)[k][1]]), K!Pushes(cats), g)]
    BY DEF K!groupShopping
  <2>6. K!Names([k \in DOMAIN K!Pushes(cats) |-> K!Pushes(cats)[k][1]]) = order
    BY <1>4, <2>1
  <2>3. groups = [g \in DOMAIN order |-> group(order, pushed, g)]
    <3> HIDE DEF group
    <3> QED
      BY <2>5, <2>6
  <2>4. \A x : LET mine == K!Filtered(pushed, {k \in DOMAIN pushed : pushed[k][1] = x})
               IN  [k \in DOMAIN mine |-> mine[k][2]] = theirs(x)
    BY <2>2
  <2> HIDE DEF theirs
  <2> QED
    BY <1>6, <2>3, <2>4
<1>9. ASSUME NEW x PROVE Once(theirs(x)) /\ Elements(theirs(x)) = {it \in Elements(items) : x \in Placed(it)}
  <2>1. PICK T : T = {k \in 1..N : pushed[k][1] = x}
    OBVIOUS
  <2>2. PICK s, t : s = Filtered(pushed, T) /\ t = [k \in DOMAIN s |-> s[k][2]]
    OBVIOUS
  <2>3. theirs(x) = t
    BY <2>1, <2>2
  <2>4. Once(s) /\ Elements(s) = {pushed[k] : k \in T}
    <3>1. T \in SUBSET DOMAIN pushed
      BY <1>1, <2>1
    <3>2. Once(pushed) /\ s = Filtered(pushed, T)
      BY <1>2, <2>2
    <3> QED
      BY <3>1, <3>2, OnceFiltered
  <2>5. \A p : p \in Elements(s) <=> \E it \in Elements(items) : x \in Placed(it) /\ p = <<x, it>>
    <3>1. ASSUME NEW p \in Elements(s) PROVE \E it \in Elements(items) : x \in Placed(it) /\ p = <<x, it>>
      <4>1. PICK k \in T : p = pushed[k]
        BY <2>4
      <4>2. PICK it \in Elements(items) : \E w \in Placed(it) : p = <<w, it>>
        BY <1>7, <2>1, <4>1
      <4>3. PICK w \in Placed(it) : p = <<w, it>>
        BY <4>2
      <4>4. p[1] = x
        BY <2>1, <4>1
      <4> QED
        BY <4>3, <4>4
    <3>2. ASSUME NEW it \in Elements(items), x \in Placed(it) PROVE <<x, it>> \in Elements(s)
      <4>1. <<x, it>> \in Elements(pushed)
        BY <1>2, <3>2
      <4>2. PICK k \in 1..N : pushed[k] = <<x, it>>
        BY <1>1, <4>1 DEF Elements
      <4>3. k \in T
        BY <2>1, <4>2
      <4> QED
        BY <2>4, <4>2, <4>3
    <3> QED
      BY <3>1, <3>2
  <2>6. PICK F \in Nat : DOMAIN s = 1..F /\ \A m, n \in 1..F : s[m] = s[n] => m = n
    BY <2>4 DEF Once
  <2>7. t = [k \in 1..F |-> t[k]] /\ \A k \in 1..F : t[k] = s[k][2]
    BY <2>2, <2>6
  <2>8. t \in Seq(Elements(t)) /\ Len(t) = F /\ DOMAIN t = 1..F
    BY <2>7, FunctionIsList
  <2>9. \A k \in 1..F : s[k] = <<x, t[k]>> /\ t[k] \in Elements(items) /\ x \in Placed(t[k])
    <3> SUFFICES ASSUME NEW k \in 1..F PROVE s[k] = <<x, t[k]>> /\ t[k] \in Elements(items) /\ x \in Placed(t[k])
      OBVIOUS
    <3>1. s[k] \in Elements(s)
      BY <2>6 DEF Elements
    <3>2. PICK it \in Elements(items) : x \in Placed(it) /\ s[k] = <<x, it>>
      BY <2>5, <3>1
    <3>3. t[k] = it
      BY <2>7, <3>2
    <3> QED
      BY <3>2, <3>3
  <2>10. \A m, n \in 1..F : t[m] = t[n] => m = n
    BY <2>6, <2>9
  <2>11. Once(t)
    BY <2>8, <2>10 DEF Once
  <2>12. ASSUME NEW it \in Elements(items), x \in Placed(it) PROVE it \in Elements(t)
    <3>1. <<x, it>> \in Elements(s)
      BY <2>5, <2>12
    <3>2. PICK k \in 1..F : s[k] = <<x, it>>
      BY <2>6, <3>1 DEF Elements
    <3>3. t[k] = it
      BY <2>7, <3>2
    <3> QED
      BY <2>8, <3>3 DEF Elements
  <2>13. ASSUME NEW it \in Elements(t) PROVE it \in Elements(items) /\ x \in Placed(it)
    <3>1. PICK k \in 1..F : it = t[k]
      BY <2>8 DEF Elements
    <3> QED
      BY <2>9, <3>1
  <2>14. Elements(t) = {it \in Elements(items) : x \in Placed(it)}
    BY <2>12, <2>13
  <2> QED
    BY <2>3, <2>11, <2>14
<1> HIDE DEF own, theirs
<1>10. ASSUME NEW g \in 1..D
       PROVE  /\ groups[g].name = order[g] /\ Once(groups[g].items)
              /\ Elements(groups[g].items) = {it \in Elements(items) : order[g] \in Placed(it)}
  <2>1. PICK grp : grp = [name |-> order[g], pantry |-> order[g] = "Pantry staples", items |-> theirs(order[g])]
    OBVIOUS
  <2>2. groups[g] = grp
    BY <1>8, <2>1
  <2>3. grp.name = order[g] /\ grp.items = theirs(order[g])
    BY <2>1
  <2> QED
    BY <1>9, <2>2, <2>3
<1>11. \A g, h \in 1..D : groups[g].name = groups[h].name => g = h
  <2>1. \A g, h \in 1..D : order[g] = order[h] => g = h
    BY <1>5, <1>6 DEF Once
  <2> QED
    BY <1>10, <2>1
<1>12. ASSUME NEW it \in Elements(items), NEW w \in Placed(it) PROVE \E g \in 1..D : groups[g].name = w
  <2>1. <<w, it>> \in Elements(pushed)
    BY <1>2
  <2>2. PICK k \in 1..N : pushed[k] = <<w, it>>
    BY <1>1, <2>1 DEF Elements
  <2>3. to[k] = w /\ DOMAIN to = 1..N
    BY <1>3, <2>2
  <2>4. w \in Elements(order)
    BY <1>5, <2>3 DEF Elements
  <2>5. PICK g \in 1..D : order[g] = w
    BY <1>6, <2>4 DEF Elements
  <2> QED
    BY <1>10, <2>5
<1>13. DOMAIN groups = 1..D
  BY <1>8
<1> QED
  BY <1>10, <1>11, <1>12, <1>13 DEF RecipeGroupsOK

\* By recipe an item is there as often as there are places it goes.
LEMMA TimesByRecipe ==
    ASSUME NEW items, ItemsOK(items), NEW groups, RecipeGroupsOK(groups, items), NEW it \in Elements(items)
    PROVE  /\ K!Times(groups, it.id) = Cardinality(Placed(it))
           /\ \A w \in Placed(it) : \E g \in DOMAIN groups : groups[g].name = w /\ it \in Elements(groups[g].items)
           /\ \A g, h \in DOMAIN groups : groups[g].name = groups[h].name => g = h
<1>1. PICK D \in Nat :
        /\ DOMAIN groups = 1..D
        /\ \A g \in 1..D : /\ Once(groups[g].items)
                           /\ Elements(groups[g].items) = {x \in Elements(items) : groups[g].name \in Placed(x)}
        /\ \A g, h \in 1..D : groups[g].name = groups[h].name => g = h
        /\ \A x \in Elements(items) : \A w \in Placed(x) : \E g \in 1..D : groups[g].name = w
  BY DEF RecipeGroupsOK
<1>2. PICK B : B = {g \in 1..D : it \in Elements(groups[g].items)}
  OBVIOUS
<1>3. \A g \in 1..D : g \in B <=> groups[g].name \in Placed(it)
  BY <1>1, <1>2
<1>4. K!Times(groups, it.id) = Cardinality(B)
  <2>1. \A g \in 1..D : Once(groups[g].items) /\ Elements(groups[g].items) \subseteq Elements(items)
    BY <1>1
  <2> QED
    BY <1>1, <1>2, <2>1, TimesAre
<1>5. PICK f : f = [g \in B |-> groups[g].name]
  OBVIOUS
<1>6. f \in Bijection(B, Placed(it))
  <2>1. f \in [B -> Placed(it)]
    BY <1>2, <1>3, <1>5
  <2>2. \A g, h \in B : f[g] = f[h] => g = h
    BY <1>1, <1>2, <1>5
  <2>3. \A w \in Placed(it) : \E g \in B : f[g] = w
    BY <1>1, <1>3, <1>5
  <2>4. f \in Injection(B, Placed(it))
    BY <2>1, <2>2 DEF Injection, IsInjective
  <2>5. f \in Surjection(B, Placed(it))
    BY <2>1, <2>3 DEF Surjection
  <2> QED
    BY <2>4, <2>5 DEF Bijection
<1>7. IsFiniteSet(B)
  <2>1. IsFiniteSet(1..D)
    BY FS_Interval
  <2>2. B \in SUBSET (1..D)
    BY <1>2
  <2> QED
    BY <2>1, <2>2, FS_Subset
<1>8. Cardinality(Placed(it)) = Cardinality(B)
  <2>1. ExistsBijection(B, Placed(it))
    BY <1>6 DEF ExistsBijection
  <2> QED
    BY <1>7, <2>1, FS_Bijection
<1>9. \A w \in Placed(it) : \E g \in DOMAIN groups : groups[g].name = w /\ it \in Elements(groups[g].items)
  BY <1>1
<1> QED
  BY <1>1, <1>4, <1>8, <1>9

\* For any items, changing the grouping loses and repeats nothing (groupShopping).
THEOREM GroupingKeepsAll ==
    ASSUME NEW items, ItemsOK(items)
    PROVE  K!GroupingKeeps(items)
<1>1. PICK cats : cats = K!apiShoppingListToShopping(items)
  OBVIOUS
<1>2. CategoriesOK(cats, items)
  BY <1>1, CategoriesAre
<1>3. PICK groups : groups = K!groupShopping(cats, "recipe")
  OBVIOUS
<1>4. PICK pushed : pushed = K!Pushes(cats)
  OBVIOUS
<1>5. PushedOK(pushed, items)
  BY <1>2, <1>4, PushesAre
<1>6. RecipeGroupsOK(groups, items)
  BY <1>3, <1>4, <1>5, RecipeGroupsAre
<1>7. ASSUME NEW it \in Elements(items), NEW wanted, wanted = Elements(K!recipeNames(it))
      PROVE  /\ \A mode \in {"aisle", "manual"} : K!Times(K!groupShopping(cats, mode), it.id) = 1
             /\ IF it.aisle = "pantry" \/ wanted = {} \/ Len(K!recipeNames(it)) < Len(it.sources)
                THEN K!Times(groups, it.id) = 1
                ELSE /\ K!Times(groups, it.id) = Cardinality(wanted)
                     /\ \A w \in wanted : \E g \in DOMAIN groups :
                           groups[g].name = w /\ it \in Elements(groups[g].items)
  <2>1. \A mode \in {"aisle", "manual"} : K!Times(K!groupShopping(cats, mode), it.id) = 1
    BY <1>2, OnceByAisle, OnceUngrouped
  <2>2. PICK names : names = K!recipeNames(it)
    OBVIOUS
  <2>3. /\ wanted = {x \in Elements(it.sources) : x # K!Staple}
        /\ Len(names) < Len(it.sources) <=> K!Staple \in Elements(it.sources)
    <3>1. Once(it.sources)
      BY DEF ItemsOK
    <3> QED
      BY <1>7, <2>2, <3>1, RecipesAre
  <2>4. /\ K!Times(groups, it.id) = Cardinality(Placed(it))
        /\ \A w \in Placed(it) : \E g \in DOMAIN groups : groups[g].name = w /\ it \in Elements(groups[g].items)
    BY <1>6, TimesByRecipe
  <2>5. CASE it.aisle = "pantry" \/ wanted = {} \/ Len(names) < Len(it.sources)
    <3>1. Placed(it) = {"Pantry staples"} \/ Placed(it) = {"Other"}
      <4>1. CASE it.aisle = "pantry" \/ K!Staple \in Elements(it.sources)
        BY <4>1 DEF Placed
      <4>2. CASE ~(it.aisle = "pantry" \/ K!Staple \in Elements(it.sources))
        <5>1. wanted = {}
          BY <2>3, <2>5, <4>2
        <5>2. Elements(it.sources) = {}
          BY <2>3, <4>2, <5>1
        <5> QED
          BY <4>2, <5>2 DEF Placed
      <4> QED
        BY <4>1, <4>2
    <3>2. Cardinality(Placed(it)) = 1
      BY <3>1, FS_Singleton
    <3> QED
      BY <2>1, <2>2, <2>4, <2>5, <3>2
  <2>6. CASE ~(it.aisle = "pantry" \/ wanted = {} \/ Len(names) < Len(it.sources))
    <3>1. it.aisle # "pantry" /\ K!Staple \notin Elements(it.sources)
      BY <2>3, <2>6
    <3>2. wanted = Elements(it.sources) /\ wanted # {}
      BY <2>3, <2>6, <3>1
    <3>3. Placed(it) = wanted
      BY <3>1, <3>2 DEF Placed
    <3> QED
      BY <2>1, <2>2, <2>4, <2>6, <3>3
  <2> QED
    BY <2>5, <2>6
<1>8. \A g, h \in DOMAIN groups : groups[g].name = groups[h].name => g = h
  BY <1>6 DEF RecipeGroupsOK
<1>9. (\A s : K!Elements(s) = Elements(s)) /\ \A G : K!Cardinality(G) = Cardinality(G)
  BY KitchenLists DEF K!Cardinality, Cardinality
<1> QED
  BY <1>1, <1>3, <1>7, <1>8, <1>9 DEF K!GroupingKeeps

\* The recipes of the inputs' items are there once each.
LEMMA SourcesOnce == \A s \in K!SourceLists : Once(s)
<1>1. Once(<<>>) /\ Once(<<"soup">>) /\ Once(<<"pantry staple">>)
  BY OnceOfNone, OnceOfOne
<1>2. Once(<<"soup", "stew">>)
  BY OnceOfTwo
<1>3. Once(<<"stew", "pantry staple">>)
  BY OnceOfTwo
<1> QED
  BY <1>1, <1>2, <1>3 DEF K!SourceLists, K!Staple

\* Whatever the input, the functions are right.
LEMMA MathOfInputs == input \in K!KitchenInputs \cup {[kind |-> "none"]} => K!MathRight
<1> USE DEF K!MathRight, K!GroupingKeepsItems, K!CuesRight, K!ScaledIsNearest
<1> DEFINE
      items  == {[kind |-> "list", items |-> <<a, b>>] : a \in K!ApiItem("a"), b \in K!ApiItem("b")}
      cues   == {[kind |-> "cues", records |-> <<a, b>>] : a \in K!Records("a"), b \in K!Records("b")}
      scales == {[kind |-> "scale", amt |-> a, base |-> n, servings |-> s] : a \in K!Amounts, n \in 1..3, s \in 1..5}
<1>1. input \in items => K!MathRight
  <2> SUFFICES ASSUME NEW a \in K!ApiItem("a"), NEW b \in K!ApiItem("b"), input = [kind |-> "list", items |-> <<a, b>>]
               PROVE  K!MathRight
    OBVIOUS
  <2>1. a.id = "a" /\ a.order \in Int /\ Once(a.sources)
    BY SourcesOnce DEF K!ApiItem
  <2>2. b.id = "b" /\ b.order \in Int /\ Once(b.sources)
    BY SourcesOnce DEF K!ApiItem
  <2>3. a # b
    BY <2>1, <2>2
  <2>4. Once(<<a, b>>) /\ Elements(<<a, b>>) = {a, b}
    BY <2>3, OnceOfTwo
  <2>5. ItemsOK(<<a, b>>)
    BY <2>1, <2>2, <2>4 DEF ItemsOK
  <2>6. K!GroupingKeeps(<<a, b>>)
    BY <2>5, GroupingKeepsAll
  <2> QED
    BY <2>6
<1>2. input \in cues => K!MathRight
  <2> SUFFICES ASSUME NEW a \in K!Records("a"), NEW b \in K!Records("b"), input = [kind |-> "cues", records |-> <<a, b>>]
               PROVE  K!MathRight
    OBVIOUS
  <2>1. a.id = "a" /\ a.amount \in Int /\ a.days \in Int
    BY DEF K!Records, K!NoDate
  <2>2. b.id = "b" /\ b.amount \in Int /\ b.days \in Int
    BY DEF K!Records, K!NoDate
  <2>3. PICK t : t = <<a, b>>
    OBVIOUS
  <2>4. DOMAIN t = 1..2 /\ t[1] = a /\ t[2] = b
    BY <2>3
  <2>5. \A k \in 1..2 : k = 1 \/ k = 2
    OBVIOUS
  <2>6. \A k \in 1..2 : t[k].amount \in Int /\ t[k].days \in Int
    BY <2>1, <2>2, <2>4, <2>5
  <2>7. \A j, k \in 1..2 : t[j].id = t[k].id => j = k
    BY <2>1, <2>2, <2>4, <2>5
  <2>8. K!CuesAreOf(t)
    BY <2>4, <2>6, <2>7, CuesOfAll
  <2> QED
    BY <2>3, <2>8
<1>3. input \in scales => K!MathRight
  <2> SUFFICES ASSUME NEW a \in K!Amounts, NEW n \in 1..3, NEW s \in 1..5,
                      input = [kind |-> "scale", amt |-> a, base |-> n, servings |-> s]
               PROVE  K!MathRight
    OBVIOUS
  <2>1. PICK x \in Nat, y \in Nat, z \in Nat \ {0} : x = a.whole /\ y = a.num /\ z = a.den
    BY DEF K!Amounts
  <2>2. n \in Nat \ {0} /\ s \in Nat
    OBVIOUS
  <2>3. K!ScaledToNearest(a, n, s)
    BY <2>1, <2>2, ScaledNearest
  <2> QED
    BY <2>3
<1>4. input = [kind |-> "none"] => K!MathRight
  OBVIOUS
<1> HIDE DEF K!MathRight, K!GroupingKeepsItems, K!CuesRight, K!ScaledIsNearest
<1>5. K!KitchenInputs = items \cup cues \cup scales
  BY DEF K!KitchenInputs
<1> HIDE DEF items, cues, scales
<1> QED
  BY <1>1, <1>2, <1>3, <1>4, <1>5

-----------------------------------------------------------------------------
(* The theorems.                                                           *)

\* A step of the kitchen is a step of one part, and the others rest.
LEMMA KitchenSteps ==
    [Next]_vars => /\ [M!MealNext]_mealVars /\ [S!ShopNext]_shopVars /\ [J!JobNext]_jobVars
                   /\ [R!ShelfNext]_shelfVars /\ [C!CookNext]_cookVars /\ [W!SocketNext]_socketVars
  BY DEF Next, vars

\* The kitchen's inductive invariant: each part's.
KitchenInv == MealInv /\ ShopInv /\ JobInv /\ ShelfInv /\ CookInv /\ SocketInv

\* It holds at first, and every step keeps it.
THEOREM KitchenInvHolds == Spec => []KitchenInv
<1>1. Init => KitchenInv
  BY MealInitInv, ShopInitInv, JobInitInv, ShelfInitInv, CookInitInv, SocketInitInv DEF Init, KitchenInv
<1>2. KitchenInv /\ [Next]_vars => KitchenInv'
  BY KitchenSteps, MealStep, ShopStep, JobStep, ShelfStep, CookStep, SocketStep DEF KitchenInv
<1> QED
  BY <1>1, <1>2, PTL DEF Spec

\* For any number of cells, items, calls, jobs and visits, every part keeps its types.
THEOREM KitchenTypeCorrect == Spec => []TypeOK
<1>1. KitchenInv => TypeOK
  BY MealImplies, ShopImplies, JobImplies, ShelfImplies, CookImplies DEF KitchenInv, SocketInv, TypeOK
<1> QED
  BY <1>1, KitchenInvHolds, PTL

\* However requests, answers and other devices interleave, a tick is true: a shopping item
\* without a call under way is on its list as on the screen (toggle in recipes.tsx), and a
\* collection ticked in the menu has the recipe (AddToCollectionMenu).
THEOREM TicksTrueHolds == Spec => []TicksTrue
<1>1. KitchenInv => TicksTrue
  BY ShopImplies, ShelfImplies DEF KitchenInv, TicksTrue
<1> QED
  BY <1>1, KitchenInvHolds, PTL

\* Whatever the user does meanwhile, "Copied!" is the whole week, the import panel is about
\* the last import and its link opens a recipe, and the minutes the countdown started from,
\* or "Timer done!" announces, are those of every step from the one it was started on to the
\* one shown (recipes.tsx, ImportStatusPanel.tsx, cooking-mode.tsx).
THEOREM AnnouncedHolds == Spec => []Announced
<1>1. KitchenInv => Announced
  BY MealImplies, JobImplies, CookImplies DEF KitchenInv, Announced
<1> QED
  BY <1>1, KitchenInvHolds, PTL

\* Through every change of session, loss, retry and late close there is one socket, one retry
\* timer or neither, and the status says "open" exactly while the socket is (ws-provider.tsx).
THEOREM SocketHonestHolds == Spec => []SocketHonest
<1>1. KitchenInv => SocketHonest
  BY DEF KitchenInv, SocketInv, SocketHonest
<1> QED
  BY <1>1, KitchenInvHolds, PTL

\* A list generated again keeps the ticks of the one it replaces, unless a tick or another
\* run came in between (Generate in service/shopping.go); and a wake lock that outlives its
\* visit is one granted late, never one that leaving forgot (release).
THEOREM NothingLostHolds == Spec => NothingLost
<1>1. KitchenInv /\ [Next]_vars =>
          [\A g \in DOMAIN runs : /\ runs[g].at = "fill" /\ lists'[runs[g].new].item[NItems] # "absent"
                                  /\ runs[g].quiet /\ runs[g].old # 0
                                  => S!Done(lists'[runs[g].new]) = S!Done(lists[runs[g].old])]_shopVars
  BY KitchenSteps, ShopKeepsTicks DEF KitchenInv, ShopInv
<1>2. KitchenInv /\ [Next]_vars => [left' > left => late' < late]_cookVars
  BY KitchenSteps, CookGrants DEF KitchenInv
<1>3. Spec => S!RegenerateKeepsTicks
  BY <1>1, KitchenInvHolds, PTL DEF Spec, S!RegenerateKeepsTicks, S!shopVars, shopVars
<1>4. Spec => C!LateGrants
  BY <1>2, KitchenInvHolds, PTL DEF Spec, C!LateGrants, C!cookVars, cookVars
<1> QED
  BY <1>3, <1>4 DEF NothingLost

\* The pure functions agree with their definitions (groupShopping, computePantryCues,
\* scaleAmount): the input of a behaviour is one of those the model enumerates, and stays;
\* the functions are right of each of them, as they are of any.
THEOREM MathRightHolds == Spec => []MathRight
<1> DEFINE chosen == input \in K!KitchenInputs \cup {[kind |-> "none"]}
<1>1. Init => chosen
  BY DEF Init
<1>2. chosen /\ [Next]_vars => chosen'
  BY DEF Next, vars
<1>3. chosen => MathRight
  BY MathOfInputs DEF MathRight
<1> QED
  BY <1>1, <1>2, <1>3, PTL DEF Spec
=============================================================================
