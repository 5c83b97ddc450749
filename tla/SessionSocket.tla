--------------------------- MODULE SessionSocket ----------------------------
(***************************************************************************)
(* The WebSocket effect of WSProvider (web/src/lib/ws/ws-provider.tsx).    *)
(* The session is an input: who is signed in to a household, none else.    *)
(***************************************************************************)
EXTENDS Integers

VARIABLES session,  \* the token of an authenticated household, or "none"
          sock      \* what the effect and its refs hold

socketVars == <<session, sock>>

Tokens == {"none", "acct", "kid"}
BACKOFF_INITIAL == 1
BACKOFF_MAX == 30

NoSocket == [dep |-> "none", live |-> 0, open |-> FALSE, timers |-> 0, status |-> "idle",
             backoff |-> BACKOFF_INITIAL, again |-> FALSE]

SocketTypeOK ==
    /\ session \in Tokens
    /\ sock \in [dep : Tokens, live : 0..2, open : BOOLEAN, timers : 0..2,
                 status : {"connecting", "open", "closed", "error", "idle"},
                 backoff : {1, 2, 4, 8, 16, 30}, again : BOOLEAN]

SocketInit == session = "none" /\ sock = NoSocket

\* Sign-in, PIN switch, logout, a failed hydration.
SessionChanges ==
    /\ session' \in Tokens \ {session}
    /\ UNCHANGED sock

\* Mutant: the retry timer is not cleared.
CleanupKeepsTimer == [sock EXCEPT !.live = 0, !.open = FALSE]

\* The effect's cleanup: the timer is cleared, the socket detached and closed.
Cleanup == [sock EXCEPT !.live = 0, !.open = FALSE, !.timers = 0]

\* scheduleRetry: a timer after the backoff, which doubles up to its maximum.
Scheduled(s) ==
    [s EXCEPT !.timers = @ + 1,
              !.backoff = IF 2 * @ < BACKOFF_MAX THEN 2 * @ ELSE BACKOFF_MAX]

\* connect(): a new socket, or the constructor throws.
Connected(s) ==
    {[s EXCEPT !.live = @ + 1, !.status = "connecting"], Scheduled([s EXCEPT !.status = "error"])}

\* The effect runs when the session or reconnectTick changed: cleanup, then
\* connect, or idle without a session.
RunEffect ==
    /\ session # sock.dep \/ sock.again
    /\ LET clean == [Cleanup EXCEPT !.dep = session, !.again = FALSE]
       IN sock' \in IF session = "none" THEN {[clean EXCEPT !.status = "idle"]} ELSE Connected(clean)
    /\ UNCHANGED session

onopen ==
    /\ sock.live > 0 /\ sock.status = "connecting"
    /\ sock' = [sock EXCEPT !.open = TRUE, !.status = "open", !.backoff = BACKOFF_INITIAL]
    /\ UNCHANGED session

\* onerror is only told; a close follows it.
onerror ==
    /\ sock.live > 0 /\ sock.status # "error"
    /\ sock' = [sock EXCEPT !.open = FALSE, !.status = "error"]
    /\ UNCHANGED session

onclose ==
    /\ sock.live > 0
    /\ sock' = Scheduled([sock EXCEPT !.live = @ - 1, !.open = FALSE, !.status = "closed"])
    /\ UNCHANGED session

\* The retry timer fires.
connect ==
    /\ sock.timers > 0
    /\ sock' \in Connected([sock EXCEPT !.timers = @ - 1])
    /\ UNCHANGED session

\* The button of the status bar.
reconnect ==
    /\ ~sock.again
    /\ sock' = [sock EXCEPT !.backoff = BACKOFF_INITIAL, !.again = TRUE]
    /\ UNCHANGED session

SocketNext == SessionChanges \/ RunEffect \/ onopen \/ onerror \/ onclose \/ connect \/ reconnect

\* Effects and timers run, and a server tried over and over accepts a socket.
SocketFairness ==
    /\ WF_socketVars(RunEffect) /\ WF_socketVars(connect) /\ WF_socketVars(sock.status = "error" /\ onclose)
    /\ SF_socketVars(connect /\ sock'.live > 0) /\ SF_socketVars(onopen)

-----------------------------------------------------------------------------
\* One session, one socket: never two sockets that handle frames, nor a retry
\* timer beside a socket, across sign-in, PIN switch, logout, manual reconnects
\* and retries in any order.
OneSocket == sock.live + sock.timers <= 1

\* The status the app shows is true: "open" exactly while a socket is open.
StatusIsTrue == sock.open <=> sock.status = "open"

\* At any time one socket, one timer or neither, and the status says which.
SocketHonest == OneSocket /\ StatusIsTrue

\* A lasting session that is not reconnected by hand for ever gets its socket
\* back after every loss.
SocketReturns ==
    <>[](session # "none" /\ session = sock.dep /\ ~sock.again) => []<>sock.open
=============================================================================
