----------------------------- MODULE WebSession -----------------------------
(***************************************************************************)
(* One browser tab of the web client: the auth store and its hydrations,   *)
(* sign-in through Cognito (authorization code with PKCE), the kiosk's PIN *)
(* unlock and the route gates (web/src/lib/auth, components/*gate*, app/). *)
(* A token is named after its owner.  Time, names and roles are left out.  *)
(***************************************************************************)
EXTENDS Integers, FiniteSets

CONSTANTS MaxAttempts,   \* bound on sign-in attempts
          MaxHops,       \* bound on gate redirects counted in a row
          PinMin, PinMax \* digits the kiosk asks for, and takes

ASSUME SessionBounds == MaxAttempts \in Nat /\ MaxHops \in Nat \ {0} /\ PinMin \in 1..PinMax /\ PinMax \in Nat

None == "none"
Owners == {"acct", "kid"}
MembersOf == [acct |-> "parent", kid |-> "kid"]
People == {"parent", "kid"}
\* Where a sign-in may return to: the pages whose gate sends one to /login.
ReturnTargets == {"/", "/chores", "/onboarding"}
\* The pad may be left while its PIN is verified, and another PIN entered.
PinSlots == {"pin", "pin2"}
Slots  == {"boot", "accept", "refresh", "pin", "pin2"}
Routes == {"/", "/chores", "/settings", "/login", "/auth/callback", "/pin-login", "/kiosk",
           "/onboarding", "cognito"}

VARIABLES store,    \* localStorage tb-auth-token
          auth,     \* the auth context
          op,       \* the async operations of the auth store, by slot
          route,    \* the page of the tab ("cognito": the app is unloaded)
          oidc,     \* sessionStorage of the sign-in, and the attempts made
          cb,       \* the callback page: the attempt its code is for
          pad,      \* the PIN pad of the kiosk or of the PIN login page
          srv,      \* the account on the server: "none", "household", "member"
          kiosk,    \* kiosk_mode_enabled of the household
          hops,     \* gate redirects since the user last did something
          overlap   \* have two hydrations been under way at once

vars == <<store, auth, op, route, oidc, cb, pad, srv, kiosk, hops, overlap>>

-----------------------------------------------------------------------------
Quiet == [at |-> "idle", tok |-> None]
NoSession(status) ==
    [status |-> status, account |-> None, household |-> FALSE, member |-> None,
     active |-> None, token |-> None]
NoPad == [ui |-> "lock", for |-> None, digits |-> 0, req |-> None]

\* The pad is locked while its own request is under way.
Busy == pad.req # None
NoCallback == [at |-> None, attempt |-> 0]

\* What the provider hands out as activeMember: activeMember ?? member.
ActiveMember == IF auth.active # None THEN auth.active ELSE auth.member

InFlight == {s \in Slots : op[s].at = "me"}

TypeOK ==
    /\ store \in Owners \cup {None}
    /\ auth \in [status : {"loading", "unauthenticated", "authenticated"}, account : Owners \cup {None},
                 household : BOOLEAN, member : People \cup {None}, active : People \cup {None},
                 token : Owners \cup {None}]
    /\ op \in [Slots -> [at : {"idle", "pin", "me"}, tok : Owners \cup {None}]]
    /\ route \in Routes
    /\ oidc \in [attempts : 0..MaxAttempts, saved : 0..MaxAttempts, used : SUBSET (1..MaxAttempts)]
    /\ cb \in [at : {None, "check", "exchange", "accepting", "failed"}, attempt : 0..MaxAttempts]
    /\ pad \in [ui : {"lock", "members", "pin"}, for : People \cup {None}, digits : 0..PinMax, req : PinSlots \cup {None}]
    /\ srv \in {"none", "household", "member"} /\ kiosk \in BOOLEAN
    /\ hops \in 0..MaxHops /\ overlap \in BOOLEAN

\* AuthProvider's mount effect: without a stored token the session is over
\* before it starts, else the token is hydrated.
Mounted(tok) == IF tok = None THEN NoSession("unauthenticated")
                ELSE [NoSession("loading") EXCEPT !.token = tok]
MountedOps(tok) == [s \in Slots |-> IF s = "boot" /\ tok # None THEN [at |-> "me", tok |-> tok] ELSE Quiet]

\* A full page load at r: React state is new, storage is kept.
Load(r, callback) ==
    /\ route' = r /\ cb' = callback
    /\ auth' = Mounted(store) /\ op' = MountedOps(store)
    /\ pad' = NoPad /\ hops' = 0
    /\ UNCHANGED <<store, srv, kiosk, overlap>>

\* The browser leaves the app: what was under way is gone.
Unload ==
    /\ route' = "cognito" /\ cb' = NoCallback
    /\ auth' = NoSession("loading") /\ op' = [s \in Slots |-> Quiet]
    /\ pad' = NoPad /\ hops' = 0

Init ==
    /\ store \in {None, "acct"} /\ route \in {"/", "/chores", "/kiosk", "/login", "/onboarding"}
    /\ auth = Mounted(store) /\ op = MountedOps(store)
    /\ oidc = [attempts |-> 0, saved |-> 0, used |-> {}] /\ cb = NoCallback
    /\ pad = NoPad
    /\ srv \in {"none", "household", "member"} /\ kiosk \in BOOLEAN
    /\ hops = 0 /\ overlap = FALSE

-----------------------------------------------------------------------------
(* The auth store.                                                         *)

\* hydrate's setters after GET /v1/auth/me for the token it was sent with.
Hydrated(tok) ==
    [status |-> "authenticated", account |-> tok,
     household |-> tok = "kid" \/ srv # "none",
     member |-> IF tok = "kid" THEN "kid" ELSE IF srv = "member" THEN "parent" ELSE None,
     active |-> IF tok = "kid" THEN "kid" ELSE IF srv = "member" THEN "parent" ELSE None,
     token |-> auth.token]

\* Mutant: the pad stays locked.
PadEmptied(s) == IF pad.req = s THEN [pad EXCEPT !.digits = 0] ELSE pad

\* The pad whose request ended: it takes digits again, from none.
PadCleared(s) == IF pad.req = s THEN [pad EXCEPT !.digits = 0, !.req = None] ELSE pad

\* A hydration is sent with the token in storage.
Start(s, tok) ==
    /\ op' = [op EXCEPT ![s] = [at |-> "me", tok |-> tok]]
    /\ overlap' = (overlap \/ InFlight \ {s} # {})

Ended(s) == [op EXCEPT ![s] = Quiet]

\* The page that awaited the call goes on.  The callback page returns to where
\* the sign-in began, hydrated or not.  A right PIN pushes the home page, or
\* the page that sent the child to the kiosk, even if its pad was left in the
\* meantime; a failure only clears that pad.
AfterHydrate(s, ok) ==
    CASE s = "accept" -> /\ cb' = NoCallback
                         /\ route' \in ReturnTargets
                         /\ UNCHANGED pad
      [] s \in PinSlots /\ ok -> route' \in {"/", "/chores"} /\ pad' = NoPad /\ UNCHANGED cb
      [] s \in PinSlots /\ ~ok -> pad' = PadCleared(s) /\ UNCHANGED <<route, cb>>
      [] OTHER -> UNCHANGED <<route, cb, pad>>

hydrate(s) ==
    /\ op[s].at = "me" /\ op[s].tok # None
    /\ auth' = [Hydrated(op[s].tok) EXCEPT
                  !.active = IF s \in PinSlots THEN MembersOf[op[s].tok] ELSE @]
    /\ op' = Ended(s)
    /\ AfterHydrate(s, TRUE)
    /\ hops' = 0
    /\ UNCHANGED <<store, oidc, srv, kiosk, overlap>>

\* /v1/auth/me refused or unreachable: all but refresh drop the session.
hydrateFails(s) ==
    /\ op[s].at = "me"
    /\ IF s = "refresh" THEN UNCHANGED <<store, auth>>
       ELSE store' = None /\ auth' = NoSession("unauthenticated")
    /\ op' = Ended(s)
    /\ AfterHydrate(s, FALSE)
    /\ hops' = 0
    /\ UNCHANGED <<oidc, srv, kiosk, overlap>>

acceptToken(tok) ==
    /\ store' = tok /\ auth' = [auth EXCEPT !.token = tok]
    /\ Start("accept", tok)

\* refresh() of the onboarding wizard, after the server has the member.
refresh ==
    /\ route = "/onboarding" /\ auth.status = "authenticated" /\ srv # "member"
    /\ op["refresh"].at = "idle"
    /\ srv' = "member"
    /\ Start("refresh", store)
    /\ UNCHANGED <<store, auth, route, oidc, cb, pad, kiosk, hops>>

\* Clears the session and leaves for Cognito's /logout (the build has Cognito
\* configured, without which nobody signs in).
logout ==
    /\ route = "/settings" /\ auth.status = "authenticated"
    /\ store' = None
    /\ Unload
    /\ UNCHANGED <<oidc, srv, kiosk, overlap>>

-----------------------------------------------------------------------------
(* Sign-in with Cognito.                                                   *)

LoginShown == route = "/login"

\* signIn: verifier, state and returnTo are stashed, then the app unloads.
signIn ==
    /\ LoginShown /\ oidc.attempts < MaxAttempts
    /\ oidc' = [oidc EXCEPT !.attempts = @ + 1, !.saved = oidc.attempts + 1]
    /\ Unload
    /\ UNCHANGED <<store, srv, kiosk, overlap>>

\* Cognito (external) sends the tab to the callback page of an attempt: the
\* last one, or an older one that the user reached with the back button.
CognitoReturns ==
    /\ route = "cognito"
    /\ \E a \in 1..oidc.attempts : Load("/auth/callback", [at |-> "check", attempt |-> a])
    /\ UNCHANGED oidc

\* The user gives up at Cognito, or types an address.
Reload ==
    /\ \E r \in {"/", "/login", "/kiosk"} : Load(r, NoCallback)
    /\ UNCHANGED oidc

\* Mutant: the stash is not taken away.
handleCallbackKeepsStash ==
    /\ cb.at = "check"
    /\ cb' = [cb EXCEPT !.at = IF oidc.saved # 0 /\ oidc.saved = cb.attempt THEN "exchange" ELSE "failed"]
    /\ UNCHANGED <<store, auth, op, route, oidc, pad, srv, kiosk, hops, overlap>>

\* handleCallback: the stash is taken once, and must be of this attempt.
handleCallback ==
    /\ cb.at = "check"
    /\ oidc' = [oidc EXCEPT !.saved = 0]
    /\ cb' = [cb EXCEPT !.at = IF oidc.saved # 0 /\ oidc.saved = cb.attempt THEN "exchange" ELSE "failed"]
    /\ UNCHANGED <<store, auth, op, route, pad, srv, kiosk, hops, overlap>>

ExchangeSucceeds ==
    /\ cb.at = "exchange"
    /\ cb' = [cb EXCEPT !.at = "accepting"]
    /\ oidc' = [oidc EXCEPT !.used = @ \cup {cb.attempt}]
    /\ acceptToken("acct")
    /\ UNCHANGED <<route, pad, srv, kiosk, hops>>

ExchangeFails ==
    /\ cb.at = "exchange"
    /\ cb' = [cb EXCEPT !.at = "failed"]
    /\ UNCHANGED <<store, auth, op, route, oidc, pad, srv, kiosk, hops, overlap>>

\* The callback page shows the error and leaves for /login.
CallbackLeaves ==
    /\ cb.at = "failed"
    /\ cb' = NoCallback /\ route' = "/login" /\ hops' = 0
    /\ UNCHANGED <<store, auth, op, oidc, pad, srv, kiosk, overlap>>

-----------------------------------------------------------------------------
(* The kiosk: lock screen, member picker, PIN pad.                         *)

\* What /kiosk and /pin-login show.
LockShown      == route = "/kiosk" /\ pad.ui = "lock"
PickerShown    == route = "/kiosk" /\ pad.ui = "members"
PinModalShown  == route = "/kiosk" /\ pad.ui = "pin"
AvatarsShown   == route = "/pin-login" /\ pad.ui = "lock"
PinEntryShown  == route = "/pin-login" /\ pad.ui = "pin"

\* What a key of the pad leaves alone.
PadUnchanged == UNCHANGED <<store, auth, op, route, oidc, cb, srv, kiosk, overlap>>

handleLockClick ==
    /\ LockShown
    /\ pad' = [pad EXCEPT !.ui = "members"] /\ hops' = 0 /\ PadUnchanged

\* The picker of the kiosk, the avatar grid of /pin-login.
handleSelectMember ==
    /\ PickerShown \/ AvatarsShown
    /\ \E p \in People : pad' = [NoPad EXCEPT !.ui = "pin", !.for = p]
    /\ hops' = 0 /\ PadUnchanged

handleBack ==
    /\ PinModalShown \/ PinEntryShown
    /\ pad' = [NoPad EXCEPT !.ui = IF PinModalShown THEN "members" ELSE "lock"]
    /\ hops' = 0 /\ PadUnchanged

\* Mutant: no limit on the digits.
handleDigitPastMax ==
    /\ PinModalShown /\ ~Busy
    /\ pad' = [pad EXCEPT !.digits = @ + 1] /\ hops' = 0 /\ PadUnchanged

\* Digits of the kiosk pad; it is locked while a PIN is being verified.
handleDigit ==
    /\ PinModalShown /\ ~Busy /\ pad.digits < PinMax
    /\ pad' = [pad EXCEPT !.digits = @ + 1] /\ hops' = 0 /\ PadUnchanged

handleBackspace ==
    /\ PinEntryShown \/ (PinModalShown /\ ~Busy)
    /\ pad.digits > 0
    /\ pad' = [pad EXCEPT !.digits = @ - 1] /\ hops' = 0 /\ PadUnchanged

\* pinLogin: POST /v1/auth/pin for the member of the pad.  The bound: a second one is
\* sent while the first is all that is under way, in a tab that never signed in.
Others(s) == {o \in Slots \ {s} : op[o].at # "idle"}
pinLogin(s) ==
    /\ op[s].at = "idle" /\ (s = "pin2" => Others(s) = {"pin"} /\ oidc.attempts = 0)
    /\ \E tok \in Owners : /\ MembersOf[tok] = pad.for
                          /\ op' = [op EXCEPT ![s] = [at |-> "pin", tok |-> tok]]
    /\ hops' = 0
    /\ UNCHANGED <<store, auth, route, oidc, cb, srv, kiosk, overlap>>

handleSubmit(s) ==
    /\ PinModalShown /\ pad.digits >= PinMin /\ ~Busy
    /\ pinLogin(s)
    /\ pad' = [pad EXCEPT !.req = s]

\* The pad of /pin-login submits by itself with the last digit.
handlePinDigit ==
    /\ PinEntryShown /\ ~Busy /\ pad.digits + 1 < PinMin
    /\ pad' = [pad EXCEPT !.digits = @ + 1] /\ hops' = 0 /\ PadUnchanged

handleLastDigit(s) ==
    /\ PinEntryShown /\ ~Busy /\ pad.digits + 1 = PinMin
    /\ pinLogin(s)
    /\ pad' = [pad EXCEPT !.digits = @ + 1, !.req = s]

\* Mutant: the child's token is not stored.
PinAcceptedKeepsStore(s) ==
    /\ op[s].at = "pin"
    /\ auth' = [auth EXCEPT !.token = op[s].tok]
    /\ Start(s, op[s].tok)
    /\ UNCHANGED <<store, route, oidc, cb, pad, srv, kiosk, hops>>

\* The PIN is right: its token replaces the stored one, then hydrates.
PinAccepted(s) ==
    /\ op[s].at = "pin"
    /\ store' = op[s].tok /\ auth' = [auth EXCEPT !.token = op[s].tok]
    /\ Start(s, op[s].tok)
    /\ UNCHANGED <<route, oidc, cb, pad, srv, kiosk, hops>>

PinRefused(s) ==
    /\ op[s].at = "pin"
    /\ op' = Ended(s)
    /\ pad' = PadCleared(s) /\ hops' = 0
    /\ UNCHANGED <<store, auth, route, oidc, cb, srv, kiosk, overlap>>

\* The lock button of the dashboard.
lockKiosk ==
    /\ route = "/" /\ auth.status = "authenticated"
    /\ auth' = [auth EXCEPT !.active = None]
    /\ route' = "/kiosk" /\ pad' = NoPad /\ hops' = 0
    /\ UNCHANGED <<store, op, oidc, cb, srv, kiosk, overlap>>

\* A member tile of the dashboards: choose, or clear the choice.
setActiveMember ==
    /\ route = "/" /\ auth.status = "authenticated"
    /\ \E p \in People : auth' = [auth EXCEPT !.active = IF ActiveMember = p THEN None ELSE p]
    /\ hops' = 0
    /\ UNCHANGED <<store, op, route, oidc, cb, pad, srv, kiosk, overlap>>

\* MemberContextRequired on /chores and /wallet: adults continue, kids unlock.
MemberContextShown == route = "/chores" /\ auth.status = "authenticated" /\ ActiveMember = None
handleSelect ==
    /\ MemberContextShown
    /\ \/ /\ auth' = [auth EXCEPT !.active = "parent"] /\ UNCHANGED <<route, pad>>
       \/ /\ route' = "/kiosk" /\ UNCHANGED auth
          /\ pad' = [NoPad EXCEPT !.ui = "pin", !.for = "kid"]
    /\ hops' = 0
    /\ UNCHANGED <<store, op, oidc, cb, srv, kiosk, overlap>>

-----------------------------------------------------------------------------
(* Routes and gates.                                                       *)

PublicRoutes == {"/auth/callback", "/kiosk", "/login", "/onboarding", "/pin-login"}
MemberSelectionRoutes == {"/chores"}

\* AuthGate lets the page render.
Onboarded == auth.account # None /\ auth.household
                /\ (route \in MemberSelectionRoutes \/ auth.member # None)

\* KioskGate of the home page: the signed-in member is no explicit choice.
hasActiveMember == ActiveMember # None /\ ActiveMember # auth.member

\* Mutant: members not onboarded are sent to the home page.
RedirectHome ==
    IF route = "cognito" THEN None
    ELSE IF route = "/onboarding" THEN IF auth.status = "unauthenticated" THEN "/login" ELSE None
    ELSE IF route \in PublicRoutes \/ auth.status = "loading" THEN None
    ELSE IF auth.status = "unauthenticated" THEN "/login"
    ELSE IF ~Onboarded THEN "/"
    ELSE IF route = "/" /\ kiosk /\ ~hasActiveMember THEN "/kiosk"
    ELSE None

\* The page a gate pushes, None while it renders its children or waits.
Redirect ==
    IF route = "cognito" THEN None
    ELSE IF route = "/onboarding" THEN IF auth.status = "unauthenticated" THEN "/login" ELSE None
    ELSE IF route \in PublicRoutes \/ auth.status = "loading" THEN None
    ELSE IF auth.status = "unauthenticated" THEN "/login"
    ELSE IF ~Onboarded THEN "/onboarding"
    ELSE IF route = "/" /\ kiosk /\ ~hasActiveMember THEN "/kiosk"
    ELSE None

GateRedirects ==
    /\ Redirect # None
    /\ route' = Redirect /\ pad' = NoPad
    /\ hops' = IF hops < MaxHops THEN hops + 1 ELSE hops
    /\ UNCHANGED <<store, auth, op, oidc, cb, srv, kiosk, overlap>>

\* A link, the sidebar or the address bar within the app.
Navigate ==
    /\ route \notin {"cognito", "/auth/callback"} /\ Redirect = None
    /\ \E r \in {"/", "/chores", "/settings", "/login", "/pin-login", "/kiosk"} \ {route} : route' = r
    /\ pad' = NoPad /\ hops' = 0
    /\ UNCHANGED <<store, auth, op, oidc, cb, srv, kiosk, overlap>>

-----------------------------------------------------------------------------
User == \/ signIn \/ Reload \/ logout \/ refresh \/ Navigate
        \/ handleLockClick \/ handleSelectMember \/ handleBack \/ handleDigit \/ handleBackspace
        \/ (\E s \in PinSlots : handleSubmit(s) \/ handleLastDigit(s)) \/ handlePinDigit \/ lockKiosk \/ setActiveMember \/ handleSelect
Answers == \/ \E s \in Slots : hydrate(s) \/ hydrateFails(s)
           \/ CognitoReturns \/ ExchangeSucceeds \/ ExchangeFails
           \/ \E s \in PinSlots : PinAccepted(s) \/ PinRefused(s)
Effects == handleCallback \/ CallbackLeaves \/ GateRedirects

Next == User \/ Answers \/ Effects
Spec == Init /\ [][Next]_vars

\* The browser runs the callback page's effect, and requests end.
SessionFairness ==
    /\ WF_vars(hydrate("accept") \/ hydrateFails("accept")) /\ WF_vars(ExchangeSucceeds \/ ExchangeFails)
    /\ \A s \in PinSlots : WF_vars(hydrate(s) \/ hydrateFails(s)) /\ WF_vars(PinAccepted(s) \/ PinRefused(s))
    /\ WF_vars(handleCallback) /\ WF_vars(CallbackLeaves)
FairSpec == Spec /\ SessionFairness

-----------------------------------------------------------------------------
(* Properties.                                                             *)

\* Without overlapping hydrations, who the store says is signed in is whose
\* token every request carries, whenever no operation is under way.
IdentityMatchesToken ==
    /\ ~overlap /\ InFlight = {} /\ auth.status = "authenticated"
    => auth.account = store /\ auth.token = store

\* The gates never send the user round in circles: after any user step or
\* answer at most one redirect follows.
NoRedirectLoop == hops <= 1

\* The authorization code of an attempt is exchanged at most once, and only
\* for the attempt this tab started last: going back to an old callback URL
\* can no longer sign anybody in.
\* (used grows only through an exchange; saved is the stash it needs.)
AttemptUsedOnce ==
    [][\A a \in oidc.used : cb'.at = "exchange" /\ cb.at # "exchange" => cb'.attempt # a]_vars

\* Nobody is left in front of a spinner: the callback page and the locked PIN
\* pad each end, whatever the answers are and whatever else the user does.
SpinnersEnd ==
    /\ cb.at # None ~> cb.at = None
    /\ Busy ~> ~Busy

\* "When kiosk_mode_enabled is true and no activeMember is set, redirect to
\* /kiosk" (app/page.tsx): the member whose PIN was right, and who is the active
\* member, is let into the home page, not sent back to the lock.
UnlockOpensHome ==
    route = "/" /\ auth.account = "kid" /\ auth.active = "kid" => Redirect # "/kiosk"
=============================================================================
