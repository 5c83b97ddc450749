-------------------------- MODULE WebSessionProofs --------------------------
(***************************************************************************)
(* Proofs about one tab of the web client: for every bound on sign-in      *)
(* attempts and PIN digits, the session's identity is its token's, the     *)
(* gates redirect at most once, and an authorization code is used once.    *)
(***************************************************************************)
EXTENDS WebSession, TLAPS

Sessions == [status : {"loading", "unauthenticated", "authenticated"}, account : Owners \cup {None},
             household : BOOLEAN, member : People \cup {None}, active : People \cup {None}, token : Owners \cup {None}]
Operations == [at : {"idle", "pin", "me"}, tok : Owners \cup {None}]
Attempts == 0..MaxAttempts
Digits == 0..PinMax
SignIns == [attempts : Attempts, saved : Attempts, used : SUBSET (1..MaxAttempts)]
Callbacks == [at : {None, "check", "exchange", "accepting", "failed"}, attempt : Attempts]
Pads == [ui : {"lock", "members", "pin"}, for : People \cup {None}, digits : Digits, req : PinSlots \cup {None}]

\* Until hydrations have overlapped there is one at a time, it carries the stored token, and
\* a session that no sign-in is about to replace is the stored token's.
IdentityOK ==
    ~overlap => /\ \A s, t \in Slots : op[s].at = "me" /\ op[t].at = "me" => s = t
                /\ \A s \in Slots : op[s].at = "me" => op[s].tok = store /\ auth.token = store
                /\ (\A s \in Slots : op[s].at = "me" => s = "refresh") /\ auth.status = "authenticated"
                      => auth.account = store /\ auth.token = store

\* A gate that has redirected has nothing left to redirect.
HopsOK == hops = 0 \/ (hops = 1 /\ Redirect = None)

\* The codes used are of attempts made, the stash is of an unused one, and a code being
\* exchanged has taken the stash.
CodesOK ==
    /\ oidc.used \subseteq 1..oidc.attempts /\ oidc.saved <= oidc.attempts /\ oidc.saved \notin oidc.used
    /\ cb.at # None => cb.attempt \in 1..oidc.attempts
    /\ cb.at = "exchange" => oidc.saved = 0

\* The inductive invariant.
SessionInv == TypeOK /\ IdentityOK /\ HopsOK /\ CodesOK

-----------------------------------------------------------------------------
(* Types.                                                                  *)

\* The types, by name.
SessionTypes ==
    /\ store \in Owners \cup {None} /\ auth \in Sessions /\ op \in [Slots -> Operations] /\ route \in Routes
    /\ oidc \in SignIns /\ cb \in Callbacks /\ pad \in Pads
    /\ srv \in {"none", "household", "member"} /\ kiosk \in BOOLEAN /\ hops \in 0..MaxHops /\ overlap \in BOOLEAN

LEMMA TypesNamed == TypeOK <=> SessionTypes
  BY DEF TypeOK, SessionTypes, Sessions, Operations, SignIns, Callbacks, Pads, Attempts, Digits

\* The bounds, as the types use them.
LEMMA Bounds ==
    /\ MaxAttempts \in Nat /\ MaxHops \in Nat /\ MaxHops > 0 /\ PinMin \in Nat /\ PinMax \in Nat /\ PinMin <= PinMax
    /\ 0 \in Attempts /\ 0 \in Digits /\ 0 \in 0..MaxHops
  BY SessionBounds DEF Attempts, Digits

\* What a page starts from.
LEMMA StartTypes ==
    /\ \A tok \in Owners \cup {None} : Mounted(tok) \in Sessions /\ MountedOps(tok) \in [Slots -> Operations]
    /\ NoSession("loading") \in Sessions /\ NoSession("unauthenticated") \in Sessions
    /\ [s \in Slots |-> Quiet] \in [Slots -> Operations]
    /\ NoPad \in Pads /\ NoCallback \in Callbacks
<1>1. \A st \in {"loading", "unauthenticated"} : NoSession(st) \in Sessions
  BY DEF NoSession, Sessions
<1>2. \A tok \in Owners \cup {None} : [NoSession("loading") EXCEPT !.token = tok] \in Sessions
  BY DEF NoSession, Sessions
<1>3. Quiet \in Operations /\ \A tok \in Owners \cup {None} : [at |-> "me", tok |-> tok] \in Operations
  BY DEF Quiet, Operations
<1>4. NoPad \in Pads /\ NoCallback \in Callbacks
  BY Bounds DEF NoPad, Pads, NoCallback, Callbacks
<1>5. \A tok \in Owners \cup {None} : Mounted(tok) \in Sessions
  BY <1>1, <1>2 DEF Mounted
<1>6. \A tok \in Owners \cup {None} : MountedOps(tok) \in [Slots -> Operations]
  BY <1>3 DEF MountedOps
<1> QED
  BY <1>1, <1>3, <1>4, <1>5, <1>6

\* An operation of a slot replaced.
LEMMA OpSet ==
    ASSUME op \in [Slots -> Operations], NEW s \in Slots, NEW o \in Operations, op' = [op EXCEPT ![s] = o]
    PROVE  op' \in [Slots -> Operations] /\ op'[s] = o /\ \A t \in Slots : t # s => op'[t] = op[t]
  OBVIOUS

\* The operations an action writes.
LEMMA OpTypes == Quiet \in Operations /\ \A tok \in Owners \cup {None} : /\ [at |-> "me", tok |-> tok] \in Operations
                                                                     /\ [at |-> "pin", tok |-> tok] \in Operations
  BY DEF Quiet, Operations

\* The pad, key by key.
LEMMA PadTypes ==
    ASSUME NEW p \in Pads, NEW r \in PinSlots \cup {None}
    PROVE  /\ [p EXCEPT !.ui = "members"] \in Pads /\ [p EXCEPT !.req = r] \in Pads
           /\ p.digits < PinMax => [p EXCEPT !.digits = @ + 1] \in Pads /\ [p EXCEPT !.digits = @ + 1, !.req = r] \in Pads
           /\ p.digits > 0 => [p EXCEPT !.digits = @ - 1] \in Pads
           /\ [p EXCEPT !.digits = 0, !.req = r] \in Pads
<1>1. p.digits \in Digits
  BY DEF Pads
<1>2. /\ p.digits < PinMax => p.digits + 1 \in Digits
      /\ p.digits > 0 => p.digits - 1 \in Digits
  BY <1>1, Bounds DEF Digits
<1>3. \A d \in Digits : [p EXCEPT !.digits = d] \in Pads /\ [p EXCEPT !.digits = d, !.req = r] \in Pads
  BY DEF Pads
<1>4. /\ [p EXCEPT !.ui = "members"] \in Pads /\ [p EXCEPT !.req = r] \in Pads
      /\ [p EXCEPT !.digits = 0, !.req = r] \in Pads
  BY Bounds DEF Pads
<1>5. /\ [p EXCEPT !.digits = @ + 1] = [p EXCEPT !.digits = p.digits + 1]
      /\ [p EXCEPT !.digits = @ + 1, !.req = r] = [p EXCEPT !.digits = p.digits + 1, !.req = r]
      /\ [p EXCEPT !.digits = @ - 1] = [p EXCEPT !.digits = p.digits - 1]
  BY DEF Pads
<1> QED
  BY <1>2, <1>3, <1>4, <1>5

\* A pad opened at a screen.
LEMMA PadOpened ==
    /\ \A m \in People : [NoPad EXCEPT !.ui = "pin", !.for = m] \in Pads
    /\ [NoPad EXCEPT !.ui = "members"] \in Pads /\ [NoPad EXCEPT !.ui = "lock"] \in Pads
  BY Bounds DEF NoPad, Pads

\* The session, change by change.
LEMMA AuthTypes ==
    ASSUME NEW a \in Sessions
    PROVE  /\ \A tok \in Owners \cup {None} : [a EXCEPT !.token = tok] \in Sessions
           /\ \A p \in People \cup {None} : [a EXCEPT !.active = p] \in Sessions
  BY DEF Sessions

\* A hydration's session.
LEMMA HydrateTypes ==
    ASSUME auth \in Sessions, NEW tok \in Owners
    PROVE  /\ Hydrated(tok) \in Sessions /\ Hydrated(tok).token = auth.token /\ Hydrated(tok).account = tok
           /\ MembersOf[tok] \in People
  BY DEF Sessions, Hydrated, Owners, People, MembersOf

\* The pages after a hydration.
LEMMA AfterTypes ==
    ASSUME SessionTypes, NEW s \in Slots, NEW ok \in BOOLEAN, AfterHydrate(s, ok)
    PROVE  /\ route' \in Routes /\ cb' \in Callbacks /\ pad' \in Pads
           /\ cb' = cb \/ cb' = NoCallback
<1>1. PadCleared(s) \in Pads
  BY PadTypes DEF PadCleared, SessionTypes
<1>2. ReturnTargets \subseteq Routes /\ {"/", "/chores"} \subseteq Routes
  BY DEF ReturnTargets, Routes
<1>3. CASE s = "accept"
  BY <1>2, <1>3, StartTypes DEF AfterHydrate, SessionTypes, PinSlots
<1>4. CASE s \in PinSlots /\ ok
  BY <1>2, <1>4, StartTypes DEF AfterHydrate, SessionTypes, PinSlots
<1>5. CASE s \in PinSlots /\ ~ok
  BY <1>1, <1>5 DEF AfterHydrate, SessionTypes, PinSlots
<1>6. CASE s # "accept" /\ s \notin PinSlots
  BY <1>6 DEF AfterHydrate, SessionTypes
<1> QED
  BY <1>3, <1>4, <1>5, <1>6

-----------------------------------------------------------------------------
(* Frames.                                                                 *)

\* A step that leaves the tokens and the hydrations alone.
LEMMA IdentityKept ==
    ASSUME IdentityOK, store' = store, overlap' = overlap,
           \A s \in Slots : (op'[s].at = "me" <=> op[s].at = "me") /\ (op[s].at = "me" => op'[s].tok = op[s].tok),
           auth'.token = auth.token, auth'.account = auth.account, auth'.status = auth.status
    PROVE  IdentityOK'
  BY DEF IdentityOK

\* A page load or an unload: at most the boot is under way, with the stored token.
LEMMA IdentityFresh ==
    ASSUME auth'.status # "authenticated",
           \A s \in Slots : op'[s].at = "me" => s = "boot" /\ op'[s].tok = store' /\ auth'.token = store'
    PROVE  IdentityOK'
  BY DEF IdentityOK

\* The gates look at the route, the kiosk and who is signed in.
LEMMA RedirectKept ==
    ASSUME HopsOK, hops' = hops, route' = route, kiosk' = kiosk, auth'.status = auth.status, auth'.account = auth.account,
           auth'.household = auth.household, auth'.member = auth.member, auth'.active = auth.active
    PROVE  HopsOK'
  BY DEF HopsOK, Redirect, Onboarded, hasActiveMember, ActiveMember

\* The sign-in left alone, or its callback page closed.
LEMMA CodesKept == ASSUME CodesOK, oidc' = oidc, cb' = cb \/ cb' = NoCallback PROVE CodesOK'
<1>1. NoCallback.at = None /\ None # "exchange"
  BY DEF NoCallback, None
<1> QED
  BY <1>1 DEF CodesOK

-----------------------------------------------------------------------------
(* The types are kept, action by action.                                   *)

\* A page load or the app left behind.
LEMMA LoadTypes ==
    ASSUME SessionTypes, NEW r \in Routes, NEW c \in Callbacks, Load(r, c), oidc' \in SignIns
    PROVE  SessionTypes'
  BY StartTypes, Bounds DEF Load, SessionTypes

LEMMA UnloadTypes ==
    ASSUME SessionTypes, Unload, oidc' \in SignIns, store' \in Owners \cup {None}, UNCHANGED <<srv, kiosk, overlap>>
    PROVE  SessionTypes'
<1>1. "cognito" \in Routes
  BY DEF Routes
<1> QED
  BY <1>1, StartTypes, Bounds DEF Unload, SessionTypes

\* The sign-in: started, returned from, taken up and ended.
LEMMA SignInTypes ==
    ASSUME SessionTypes, CodesOK, signIn \/ CognitoReturns \/ Reload \/ logout \/ handleCallback \/ ExchangeSucceeds \/ ExchangeFails
                            \/ CallbackLeaves
    PROVE  SessionTypes'
<1>1. oidc \in SignIns /\ cb \in Callbacks /\ auth \in Sessions /\ op \in [Slots -> Operations]
  BY DEF SessionTypes
<1>2. CASE signIn
  <2>1. PICK n \in Attempts : n = oidc.attempts + 1
    <3>1. oidc.attempts \in 0..MaxAttempts /\ oidc.attempts < MaxAttempts
      BY <1>1, <1>2 DEF signIn, SignIns, Attempts
    <3> QED
      BY <3>1, Bounds DEF Attempts
  <2>2. oidc' = [oidc EXCEPT !.attempts = n, !.saved = n]
    BY <1>1, <1>2, <2>1 DEF signIn, SignIns
  <2>3. oidc' \in SignIns
    BY <1>1, <2>2 DEF SignIns
  <2> QED
    BY <1>2, <2>3, UnloadTypes DEF signIn, SessionTypes
<1>3. CASE CognitoReturns
  <2>1. PICK a \in 1..oidc.attempts : Load("/auth/callback", [at |-> "check", attempt |-> a])
    BY <1>3 DEF CognitoReturns
  <2>2. a \in Attempts
    <3>1. oidc.attempts \in 0..MaxAttempts
      BY <1>1 DEF SignIns, Attempts
    <3> QED
      BY <2>1, <3>1, Bounds DEF Attempts
  <2>3. PICK c : c = [at |-> "check", attempt |-> a]
    OBVIOUS
  <2>4. c \in Callbacks
    BY <2>2, <2>3 DEF Callbacks
  <2>5. "/auth/callback" \in Routes /\ oidc' \in SignIns /\ Load("/auth/callback", c)
    BY <1>1, <1>3, <2>1, <2>3 DEF Routes, CognitoReturns
  <2> QED
    BY <2>4, <2>5, LoadTypes
<1>4. CASE Reload
  <2>1. PICK r \in {"/", "/login", "/kiosk"} : Load(r, NoCallback)
    BY <1>4 DEF Reload
  <2>2. r \in Routes /\ NoCallback \in Callbacks /\ oidc' \in SignIns
    BY <1>1, <1>4, StartTypes DEF Routes, Reload
  <2> QED
    BY <2>1, <2>2, LoadTypes
<1>5. CASE logout
  BY <1>5, UnloadTypes DEF logout, SessionTypes
<1>6. CASE handleCallback
  <2>1. oidc' \in SignIns
    BY <1>1, <1>6, Bounds DEF handleCallback, SignIns
  <2>2. cb' \in Callbacks
    BY <1>1, <1>6 DEF handleCallback, Callbacks
  <2> QED
    BY <1>6, <2>1, <2>2 DEF handleCallback, SessionTypes
<1>7. CASE ExchangeSucceeds
  <2>1. cb' \in Callbacks
    BY <1>1, <1>7 DEF ExchangeSucceeds, Callbacks
  <2>2. overlap' \in BOOLEAN
    BY <1>7 DEF ExchangeSucceeds, acceptToken, Start, SessionTypes
  <2>3. op' \in [Slots -> Operations]
    <3>1. "accept" \in Slots /\ "acct" \in Owners
      BY DEF Slots, Owners
    <3>2. PICK o : o = [at |-> "me", tok |-> "acct"]
      OBVIOUS
    <3>3. o \in Operations
      BY <3>1, <3>2, OpTypes
    <3>4. op' = [op EXCEPT !["accept"] = o]
      BY <1>7, <3>2 DEF ExchangeSucceeds, acceptToken, Start
    <3> QED
      BY <1>1, <3>1, <3>3, <3>4, OpSet
  <2>4. auth' \in Sessions /\ store' \in Owners \cup {None}
    <3>1. "acct" \in Owners
      BY DEF Owners
    <3> QED
      BY <1>1, <1>7, <3>1, AuthTypes DEF ExchangeSucceeds, acceptToken
  <2>5. oidc' \in SignIns
    <3>1. cb.at = "exchange" /\ cb.at # None
      BY <1>7 DEF ExchangeSucceeds, None
    <3>2. PICK n \in 0..MaxAttempts : n = oidc.attempts
      BY <1>1 DEF SignIns, Attempts
    <3>3. cb.attempt \in 1..n
      BY <3>1, <3>2 DEF CodesOK
    <3>4. cb.attempt \in 1..MaxAttempts
      BY <3>2, <3>3, Bounds
    <3>5. oidc' = [oidc EXCEPT !.used = oidc.used \cup {cb.attempt}]
      BY <1>1, <1>7 DEF ExchangeSucceeds, SignIns
    <3> QED
      BY <1>1, <3>4, <3>5 DEF SignIns
  <2> QED
    BY <1>7, <2>1, <2>2, <2>3, <2>4, <2>5 DEF ExchangeSucceeds, SessionTypes
<1>8. CASE ExchangeFails
  <2>1. cb' \in Callbacks
    BY <1>1, <1>8 DEF ExchangeFails, Callbacks
  <2> QED
    BY <1>8, <2>1 DEF ExchangeFails, SessionTypes
<1>9. CASE CallbackLeaves
  BY <1>9, StartTypes, Bounds DEF CallbackLeaves, SessionTypes, Routes
<1> QED
  BY <1>2, <1>3, <1>4, <1>5, <1>6, <1>7, <1>8, <1>9

\* The keys of the pad.
LEMMA KeyTypes ==
    ASSUME SessionTypes,
           handleLockClick \/ handleSelectMember \/ handleBack \/ handleDigit \/ handleBackspace \/ handlePinDigit
    PROVE  SessionTypes'
<1>1. pad \in Pads
  BY DEF SessionTypes
<1>2. hops' = 0 /\ PadUnchanged
  BY DEF handleLockClick, handleSelectMember, handleBack, handleDigit, handleBackspace, handlePinDigit
<1>3. pad.digits \in 0..PinMax
  BY <1>1 DEF Pads, Digits
<1>4. pad' \in Pads
  <2>1. CASE handleLockClick
    BY <1>1, <2>1, PadTypes DEF handleLockClick
  <2>2. CASE handleSelectMember
    BY <2>2, PadOpened DEF handleSelectMember
  <2>3. CASE handleBack
    <3>1. CASE PinModalShown
      BY <2>3, <3>1, PadOpened DEF handleBack
    <3>2. CASE ~PinModalShown
      BY <2>3, <3>2, PadOpened DEF handleBack
    <3> QED
      BY <3>1, <3>2
  <2>4. CASE handleDigit
    BY <1>1, <2>4, PadTypes DEF handleDigit
  <2>5. CASE handleBackspace
    BY <1>1, <2>5, PadTypes DEF handleBackspace
  <2>6. CASE handlePinDigit
    <3>1. pad.digits < PinMax
      BY <1>3, <2>6, Bounds DEF handlePinDigit
    <3> QED
      BY <1>1, <2>6, <3>1, PadTypes DEF handlePinDigit
  <2> QED
    BY <2>1, <2>2, <2>3, <2>4, <2>5, <2>6
<1> QED
  BY <1>2, <1>4, Bounds DEF PadUnchanged, SessionTypes

\* The PIN sent, and its answer.
LEMMA PinTypes ==
    ASSUME SessionTypes, NEW s \in PinSlots, handleSubmit(s) \/ handleLastDigit(s) \/ PinAccepted(s) \/ PinRefused(s)
    PROVE  SessionTypes'
<1>1. pad \in Pads /\ op \in [Slots -> Operations] /\ auth \in Sessions /\ s \in Slots
  BY DEF SessionTypes, Slots, PinSlots
<1>2. pad.digits \in 0..PinMax /\ op[s].tok \in Owners \cup {None}
  BY <1>1 DEF Pads, Digits, Operations
<1>3. CASE handleSubmit(s) \/ handleLastDigit(s)
  <2>1. pinLogin(s)
    BY <1>3 DEF handleSubmit, handleLastDigit
  <2>2. PICK tok \in Owners : op' = [op EXCEPT ![s] = [at |-> "pin", tok |-> tok]]
    BY <2>1 DEF pinLogin
  <2>3. PICK o : o = [at |-> "pin", tok |-> tok]
    OBVIOUS
  <2>4. o \in Operations
    BY <2>3, OpTypes
  <2>5. op' = [op EXCEPT ![s] = o]
    BY <2>2, <2>3
  <2>6. op' \in [Slots -> Operations]
    BY <1>1, <2>4, <2>5, OpSet
  <2>7. pad' \in Pads
    <3>1. CASE handleSubmit(s)
      BY <1>1, <3>1, PadTypes DEF handleSubmit
    <3>2. CASE handleLastDigit(s)
      <4>1. pad.digits < PinMax
        BY <1>2, <3>2, Bounds DEF handleLastDigit
      <4> QED
        BY <1>1, <3>2, <4>1, PadTypes DEF handleLastDigit
    <3> QED
      BY <1>3, <3>1, <3>2
  <2> QED
    BY <2>1, <2>6, <2>7, Bounds DEF pinLogin, SessionTypes
<1>4. CASE PinAccepted(s)
  <2>1. PICK o : o = [at |-> "me", tok |-> op[s].tok]
    OBVIOUS
  <2>2. o \in Operations
    BY <1>2, <2>1, OpTypes
  <2>3. op' = [op EXCEPT ![s] = o] /\ overlap' \in BOOLEAN
    BY <1>4, <2>1 DEF PinAccepted, Start, SessionTypes
  <2>4. op' \in [Slots -> Operations]
    BY <1>1, <2>2, <2>3, OpSet
  <2>5. auth' \in Sessions /\ store' \in Owners \cup {None}
    BY <1>1, <1>2, <1>4, AuthTypes DEF PinAccepted
  <2> QED
    BY <1>4, <2>3, <2>4, <2>5 DEF PinAccepted, SessionTypes
<1>5. CASE PinRefused(s)
  <2>1. op' \in [Slots -> Operations]
    BY <1>1, <1>5, OpTypes, OpSet DEF PinRefused, Ended
  <2>2. pad' \in Pads
    BY <1>1, <1>5, PadTypes DEF PinRefused, PadCleared
  <2> QED
    BY <1>5, <2>1, <2>2, Bounds DEF PinRefused, SessionTypes
<1> QED
  BY <1>3, <1>4, <1>5

\* The hydrations.
LEMMA HydrationTypes ==
    ASSUME SessionTypes, NEW s \in Slots, hydrate(s) \/ hydrateFails(s) \/ refresh
    PROVE  SessionTypes'
<1>1. op \in [Slots -> Operations] /\ auth \in Sessions /\ store \in Owners \cup {None}
  BY DEF SessionTypes
<1>2. CASE hydrate(s)
  <2>1. PICK tok : tok = op[s].tok
    OBVIOUS
  <2>2. tok \in Owners
    BY <1>1, <1>2, <2>1 DEF hydrate, Operations
  <2>3. op' \in [Slots -> Operations]
    BY <1>1, <1>2, OpTypes, OpSet DEF hydrate, Ended
  <2>4. PICK h \in Sessions : h = Hydrated(tok)
    BY <1>1, <2>2, HydrateTypes
  <2>5. auth' = [h EXCEPT !.active = IF s \in PinSlots THEN MembersOf[tok] ELSE @]
    BY <1>2, <2>1, <2>4 DEF hydrate
  <2>6. auth' \in Sessions
    <3>1. CASE s \in PinSlots
      BY <1>1, <2>2, <2>4, <2>5, <3>1, HydrateTypes, AuthTypes
    <3>2. CASE s \notin PinSlots
      BY <2>4, <2>5, <3>2 DEF Sessions
    <3> QED
      BY <3>1, <3>2
  <2>7. route' \in Routes /\ cb' \in Callbacks /\ pad' \in Pads
    BY <1>2, AfterTypes DEF hydrate
  <2> QED
    BY <1>2, <2>3, <2>6, <2>7, Bounds DEF hydrate, SessionTypes
<1>3. CASE hydrateFails(s)
  <2>1. op' \in [Slots -> Operations]
    BY <1>1, <1>3, OpTypes, OpSet DEF hydrateFails, Ended
  <2>2. route' \in Routes /\ cb' \in Callbacks /\ pad' \in Pads
    BY <1>3, AfterTypes DEF hydrateFails
  <2>3. auth' \in Sessions /\ store' \in Owners \cup {None}
    BY <1>1, <1>3, StartTypes DEF hydrateFails
  <2> QED
    BY <1>3, <2>1, <2>2, <2>3, Bounds DEF hydrateFails, SessionTypes
<1>4. CASE refresh
  <2>1. PICK o : o = [at |-> "me", tok |-> store]
    OBVIOUS
  <2>2. o \in Operations /\ "refresh" \in Slots
    BY <1>1, <2>1, OpTypes DEF Slots
  <2>3. op' = [op EXCEPT !["refresh"] = o] /\ overlap' \in BOOLEAN
    BY <1>4, <2>1 DEF refresh, Start, SessionTypes
  <2>4. op' \in [Slots -> Operations]
    BY <1>1, <2>2, <2>3, OpSet
  <2> QED
    BY <1>4, <2>3, <2>4 DEF refresh, SessionTypes
<1> QED
  BY <1>2, <1>3, <1>4

\* The choice of a member, the gates and the links.
LEMMA RouteTypes ==
    ASSUME SessionTypes, lockKiosk \/ setActiveMember \/ handleSelect \/ GateRedirects \/ Navigate
    PROVE  SessionTypes'
<1>1. auth \in Sessions /\ "parent" \in People /\ "kid" \in People
  BY DEF SessionTypes, People
<1>2. CASE lockKiosk
  BY <1>1, <1>2, AuthTypes, StartTypes, Bounds DEF lockKiosk, SessionTypes, Routes
<1>3. CASE setActiveMember
  <2>1. PICK p \in People \cup {None} : auth' = [auth EXCEPT !.active = p]
    BY <1>3 DEF setActiveMember
  <2> QED
    BY <1>1, <1>3, <2>1, AuthTypes, Bounds DEF setActiveMember, SessionTypes
<1>4. CASE handleSelect
  <2>1. route' \in Routes /\ pad' \in Pads /\ auth' \in Sessions
    BY <1>1, <1>4, AuthTypes, PadOpened DEF handleSelect, SessionTypes, Routes
  <2> QED
    BY <1>4, <2>1, Bounds DEF handleSelect, SessionTypes
<1>5. CASE GateRedirects
  <2>1. hops' \in 0..MaxHops
    BY <1>5, Bounds DEF GateRedirects, SessionTypes
  <2>2. Redirect # None => Redirect \in Routes
    BY DEF Redirect, Routes
  <2> QED
    BY <1>5, <2>1, <2>2, StartTypes DEF GateRedirects, SessionTypes
<1>6. CASE Navigate
  <2>1. route' \in Routes
    BY <1>6 DEF Navigate, Routes
  <2> QED
    BY <1>6, <2>1, StartTypes, Bounds DEF Navigate, SessionTypes
<1> QED
  BY <1>2, <1>3, <1>4, <1>5, <1>6

-----------------------------------------------------------------------------
(* The identity.                                                           *)

\* A page load leaves at most the boot under way, an unload nothing.
LEMMA FreshIdentity ==
    ASSUME SessionTypes, signIn \/ logout \/ Reload \/ CognitoReturns
    PROVE  IdentityOK'
<1>1. CASE signIn \/ logout
  <2>1. Unload
    BY <1>1 DEF signIn, logout
  <2>2. auth'.status # "authenticated" /\ \A s \in Slots : op'[s].at # "me"
    BY <2>1 DEF Unload, NoSession, Quiet
  <2> QED
    BY <2>2, IdentityFresh
<1>2. CASE Reload \/ CognitoReturns
  <2>1. auth' = Mounted(store) /\ op' = MountedOps(store) /\ store' = store
    BY <1>2 DEF Reload, CognitoReturns, Load
  <2>2. auth'.status # "authenticated"
    BY <2>1 DEF Mounted, NoSession
  <2>3. ASSUME NEW s \in Slots, op'[s].at = "me" PROVE s = "boot" /\ op'[s].tok = store' /\ auth'.token = store'
    BY <2>1, <2>3 DEF Mounted, MountedOps, NoSession, Quiet
  <2> QED
    BY <2>2, <2>3, IdentityFresh
<1> QED
  BY <1>1, <1>2

\* Steps that touch no token and no hydration.
LEMMA FrameIdentity ==
    ASSUME SessionTypes, IdentityOK,
           \/ UNCHANGED <<store, auth, op, overlap>>
           \/ \E s \in PinSlots : handleSubmit(s) \/ handleLastDigit(s) \/ PinRefused(s)
           \/ lockKiosk \/ setActiveMember \/ handleSelect
    PROVE  IdentityOK'
<1>1. op \in [Slots -> Operations] /\ auth \in Sessions /\ PinSlots \subseteq Slots
  BY DEF SessionTypes, Slots, PinSlots
<1>2. CASE UNCHANGED <<store, auth, op, overlap>>
  BY <1>2, IdentityKept
<1>3. ASSUME NEW s \in PinSlots, handleSubmit(s) \/ handleLastDigit(s) PROVE IdentityOK'
  <2>1. pinLogin(s)
    BY <1>3 DEF handleSubmit, handleLastDigit
  <2>2. PICK tok \in Owners : op' = [op EXCEPT ![s] = [at |-> "pin", tok |-> tok]]
    BY <2>1 DEF pinLogin
  <2>3. op[s].at = "idle" /\ UNCHANGED <<store, auth, overlap>>
    BY <2>1 DEF pinLogin
  <2>4. \A t \in Slots : (op'[t].at = "me" <=> op[t].at = "me") /\ (op[t].at = "me" => op'[t].tok = op[t].tok)
    BY <1>1, <2>2, <2>3
  <2> QED
    BY <2>3, <2>4, IdentityKept
<1>4. ASSUME NEW s \in PinSlots, PinRefused(s) PROVE IdentityOK'
  <2>1. op[s].at = "pin" /\ op' = [op EXCEPT ![s] = Quiet] /\ UNCHANGED <<store, auth, overlap>>
    BY <1>4 DEF PinRefused, Ended
  <2>2. \A t \in Slots : (op'[t].at = "me" <=> op[t].at = "me") /\ (op[t].at = "me" => op'[t].tok = op[t].tok)
    BY <1>1, <2>1 DEF Quiet
  <2> QED
    BY <2>1, <2>2, IdentityKept
<1>5. CASE lockKiosk \/ setActiveMember \/ handleSelect
  <2>1. UNCHANGED <<store, op, overlap>>
    BY <1>5 DEF lockKiosk, setActiveMember, handleSelect
  <2>2. auth' = auth \/ \E p : auth' = [auth EXCEPT !.active = p]
    BY <1>5 DEF lockKiosk, setActiveMember, handleSelect
  <2>3. auth'.token = auth.token /\ auth'.account = auth.account /\ auth'.status = auth.status
    BY <1>1, <2>2 DEF Sessions
  <2> QED
    BY <2>1, <2>3, IdentityKept
<1> QED
  BY <1>2, <1>3, <1>4, <1>5

\* A hydration that starts: with none under way it is the only one, else they overlap.
LEMMA StartAlone ==
    ASSUME SessionTypes, NEW s \in Slots, NEW tok \in Owners \cup {None}, Start(s, tok)
    PROVE  /\ op'[s].at = "me" /\ op'[s].tok = tok
           /\ ~overlap' => ~overlap /\ \A t \in Slots : t # s => op[t].at # "me" /\ op'[t].at # "me"
<1>1. op \in [Slots -> Operations] /\ op' = [op EXCEPT ![s] = [at |-> "me", tok |-> tok]]
  BY DEF SessionTypes, Start
<1>2. op'[s].at = "me" /\ op'[s].tok = tok /\ \A t \in Slots : t # s => op'[t] = op[t]
  BY <1>1
<1>3. ~overlap' => ~overlap /\ \A t \in Slots : t # s => op[t].at # "me"
  BY DEF Start, InFlight
<1> QED
  BY <1>2, <1>3

\* The hydrations and the tokens they are for.
LEMMA HydrationIdentity ==
    ASSUME SessionTypes, IdentityOK, NEW s \in Slots,
           hydrate(s) \/ hydrateFails(s) \/ refresh \/ ExchangeSucceeds \/ (s \in PinSlots /\ PinAccepted(s))
    PROVE  IdentityOK'
<1>1. op \in [Slots -> Operations] /\ auth \in Sessions /\ store \in Owners \cup {None}
  BY DEF SessionTypes
<1>2. {"accept", "refresh"} \subseteq Slots /\ "acct" \in Owners
  BY DEF Slots, Owners
<1>3. CASE hydrate(s)
  <2>1. op[s].at = "me" /\ op' = [op EXCEPT ![s] = Quiet] /\ store' = store /\ overlap' = overlap
    BY <1>3 DEF hydrate, Ended
  <2>2. \A t \in Slots : op'[t].at = "me" => t # s /\ op[t].at = "me"
    BY <1>1, <2>1 DEF Quiet
  <2>3. auth'.account = op[s].tok /\ auth'.token = auth.token
    BY <1>3 DEF hydrate, Hydrated
  <2>4. ~overlap => \A t \in Slots : op'[t].at # "me"
    BY <2>1, <2>2 DEF IdentityOK
  <2>5. ~overlap => op[s].tok = store /\ auth.token = store
    BY <2>1 DEF IdentityOK
  <2> QED
    BY <2>1, <2>3, <2>4, <2>5 DEF IdentityOK
<1>4. CASE hydrateFails(s)
  <2>1. op[s].at = "me" /\ op' = [op EXCEPT ![s] = Quiet] /\ overlap' = overlap
    BY <1>4 DEF hydrateFails, Ended
  <2>2. \A t \in Slots : op'[t].at = "me" => t # s /\ op[t].at = "me"
    BY <1>1, <2>1 DEF Quiet
  <2>3. ~overlap => \A t \in Slots : op'[t].at # "me" /\ (op[t].at = "me" => t = s)
    BY <2>1, <2>2 DEF IdentityOK
  <2>4. CASE s = "refresh"
    <3>1. store' = store /\ auth' = auth
      BY <1>4, <2>4 DEF hydrateFails
    <3> QED
      BY <2>1, <2>3, <2>4, <3>1 DEF IdentityOK
  <2>5. CASE s # "refresh"
    <3>1. auth'.status # "authenticated"
      BY <1>4, <2>5 DEF hydrateFails, NoSession
    <3> QED
      BY <2>1, <2>3, <3>1 DEF IdentityOK
  <2> QED
    BY <2>4, <2>5
<1>5. CASE refresh
  <2>1. Start("refresh", store) /\ store' = store /\ auth' = auth /\ op["refresh"].at = "idle"
    BY <1>5 DEF refresh
  <2>2. /\ op'["refresh"].at = "me" /\ op'["refresh"].tok = store
        /\ ~overlap' => ~overlap /\ \A t \in Slots : t # "refresh" => op[t].at # "me" /\ op'[t].at # "me"
    BY <1>1, <1>2, <2>1, StartAlone
  <2>3. auth.status = "authenticated"
    BY <1>5 DEF refresh
  <2>4. ~overlap' => auth.account = store /\ auth.token = store
    BY <2>2, <2>3 DEF IdentityOK
  <2> QED
    BY <2>1, <2>2, <2>4 DEF IdentityOK
<1>6. CASE ExchangeSucceeds
  <2>1. Start("accept", "acct") /\ store' = "acct" /\ auth' = [auth EXCEPT !.token = "acct"]
    BY <1>6 DEF ExchangeSucceeds, acceptToken
  <2>2. /\ op'["accept"].at = "me" /\ op'["accept"].tok = "acct"
        /\ ~overlap' => ~overlap /\ \A t \in Slots : t # "accept" => op[t].at # "me" /\ op'[t].at # "me"
    BY <1>2, <2>1, StartAlone
  <2>3. auth'.token = "acct"
    BY <1>1, <2>1 DEF Sessions
  <2> QED
    BY <1>2, <2>1, <2>2, <2>3 DEF IdentityOK
<1>7. CASE s \in PinSlots /\ PinAccepted(s)
  <2>1. PICK tok \in Owners \cup {None} : tok = op[s].tok
    BY <1>1, <1>2 DEF Operations
  <2>2. Start(s, tok) /\ store' = tok /\ auth' = [auth EXCEPT !.token = tok]
    BY <1>7, <2>1 DEF PinAccepted
  <2>3. /\ op'[s].at = "me" /\ op'[s].tok = tok
        /\ ~overlap' => ~overlap /\ \A t \in Slots : t # s => op[t].at # "me" /\ op'[t].at # "me"
    BY <1>2, <2>2, StartAlone
  <2>4. auth'.token = tok
    BY <1>1, <2>2 DEF Sessions
  <2> QED
    BY <1>2, <1>7, <2>2, <2>3, <2>4 DEF IdentityOK, PinSlots
<1> QED
  BY <1>3, <1>4, <1>5, <1>6, <1>7

-----------------------------------------------------------------------------
(* The gates and the codes.                                                *)

\* After a redirect, no gate of the page it leads to redirects.
LEMMA RedirectOnce ==
    ASSUME SessionTypes, HopsOK, GateRedirects
    PROVE  HopsOK'
<1>1. Redirect # None /\ route' = Redirect /\ auth' = auth /\ kiosk' = kiosk
  BY DEF GateRedirects
<1>2. hops = 0
  BY <1>1 DEF HopsOK
<1>3. hops' = 1
  BY <1>2, Bounds DEF GateRedirects
<1>4. Redirect' = None
  <2>1. CASE Redirect = "/login"
    BY <1>1, <2>1 DEF Redirect, PublicRoutes
  <2>2. CASE Redirect = "/kiosk"
    BY <1>1, <2>2 DEF Redirect, PublicRoutes
  <2>3. CASE Redirect = "/onboarding"
    <3>1. auth.status # "unauthenticated"
      BY <2>3 DEF Redirect, None
    <3> QED
      BY <1>1, <2>3, <3>1 DEF Redirect
  <2> QED
    BY <1>1, <2>1, <2>2, <2>3 DEF Redirect
<1> QED
  BY <1>3, <1>4 DEF HopsOK

\* The stash of a sign-in, and the code that takes it.
LEMMA CallbackCodes ==
    ASSUME SessionTypes, CodesOK, signIn \/ CognitoReturns \/ handleCallback \/ ExchangeSucceeds \/ ExchangeFails
    PROVE  CodesOK'
<1>1. oidc \in SignIns /\ cb \in Callbacks
  BY DEF SessionTypes
<1>2. oidc.attempts \in Nat /\ oidc.saved \in Nat /\ cb.attempt \in Nat
  BY <1>1, Bounds DEF SignIns, Callbacks, Attempts
<1>3. CASE signIn
  <2>1. PICK n \in Nat : n = oidc.attempts
    BY <1>2
  <2>2. oidc'.attempts = n + 1 /\ oidc'.saved = n + 1 /\ oidc'.used = oidc.used
    BY <1>1, <1>3, <2>1 DEF signIn, SignIns
  <2>3. cb'.at = None /\ None # "exchange"
    BY <1>3 DEF signIn, Unload, NoCallback, None
  <2>4. oidc.used \subseteq 1..n
    BY <2>1 DEF CodesOK
  <2>5. oidc.used \subseteq 1..(n + 1) /\ n + 1 \notin oidc.used
    BY <2>4
  <2> QED
    BY <2>2, <2>3, <2>5 DEF CodesOK
<1>4. CASE CognitoReturns
  <2>1. PICK a \in 1..oidc.attempts : cb' = [at |-> "check", attempt |-> a]
    BY <1>4 DEF CognitoReturns, Load
  <2>2. cb'.at = "check" /\ cb'.attempt = a /\ oidc' = oidc
    BY <1>4, <2>1 DEF CognitoReturns
  <2> QED
    BY <2>1, <2>2 DEF CodesOK
<1>5. CASE handleCallback
  <2>1. cb'.attempt = cb.attempt /\ cb.at # None
    BY <1>1, <1>5 DEF handleCallback, Callbacks, None
  <2>2. oidc'.saved = 0 /\ oidc'.used = oidc.used /\ oidc'.attempts = oidc.attempts
    BY <1>1, <1>5 DEF handleCallback, SignIns
  <2>3. 0 \notin oidc.used /\ 0 <= oidc.attempts
    BY <1>2 DEF CodesOK
  <2> QED
    BY <2>1, <2>2, <2>3 DEF CodesOK
<1>6. CASE ExchangeSucceeds
  <2>1. cb.at = "exchange" /\ cb.at # None /\ cb'.at = "accepting" /\ cb'.attempt = cb.attempt
    BY <1>1, <1>6 DEF ExchangeSucceeds, Callbacks, None
  <2>2. oidc'.saved = oidc.saved /\ oidc'.used = oidc.used \cup {cb.attempt} /\ oidc'.attempts = oidc.attempts
    BY <1>1, <1>6 DEF ExchangeSucceeds, SignIns
  <2>3. oidc.saved = 0 /\ cb.attempt \in 1..oidc.attempts
    BY <2>1 DEF CodesOK
  <2>4. cb.attempt # 0
    BY <1>2, <2>3
  <2> QED
    BY <2>1, <2>2, <2>3, <2>4 DEF CodesOK
<1>7. CASE ExchangeFails
  <2>1. cb.at = "exchange" /\ cb.at # None /\ cb'.at = "failed" /\ cb'.attempt = cb.attempt /\ oidc' = oidc
    BY <1>1, <1>7 DEF ExchangeFails, Callbacks, None
  <2> QED
    BY <2>1 DEF CodesOK
<1> QED
  BY <1>3, <1>4, <1>5, <1>6, <1>7

-----------------------------------------------------------------------------
(* The invariant and what follows from it.                                 *)

\* A tab is opened on a page, with or without a stored token.
LEMMA InitInv == Init => SessionInv
<1> SUFFICES ASSUME Init PROVE SessionInv
  OBVIOUS
<1>1. store \in Owners \cup {None}
  BY DEF Init, Owners
<1>2. oidc \in SignIns
  BY Bounds DEF Init, SignIns
<1>3. SessionTypes
  BY <1>1, <1>2, StartTypes, Bounds DEF Init, SessionTypes, Routes
<1>4. IdentityOK
  <2>1. auth.status # "authenticated"
    BY DEF Init, Mounted, NoSession
  <2>2. \A s \in Slots : op[s].at = "me" => s = "boot" /\ op[s].tok = store /\ auth.token = store
    BY DEF Init, Mounted, MountedOps, NoSession, Quiet
  <2> QED
    BY <2>1, <2>2 DEF IdentityOK
<1>5. HopsOK
  BY DEF Init, HopsOK
<1>6. CodesOK
  BY DEF Init, CodesOK, NoCallback, None
<1> QED
  BY <1>3, <1>4, <1>5, <1>6, TypesNamed DEF SessionInv

\* Every step keeps it.
LEMMA NextInv == SessionInv /\ [Next]_vars => SessionInv'
<1> SUFFICES ASSUME SessionInv, [Next]_vars PROVE SessionInv'
  OBVIOUS
<1>1. SessionTypes /\ IdentityOK /\ HopsOK /\ CodesOK
  BY TypesNamed DEF SessionInv
<1>2. SUFFICES SessionTypes' /\ IdentityOK' /\ HopsOK' /\ CodesOK'
  <2>1. TypeOK' <=> SessionTypes'
    BY TypesNamed, PTL
  <2> QED
    BY <2>1 DEF SessionInv
<1>3. CASE signIn
  <2>1. hops' = 0
    BY <1>3 DEF signIn, Unload
  <2> QED
    BY <1>1, <1>3, <2>1, SignInTypes, FreshIdentity, CallbackCodes DEF HopsOK
<1>4. CASE CognitoReturns
  <2>1. hops' = 0
    BY <1>4 DEF CognitoReturns, Load
  <2> QED
    BY <1>1, <1>4, <2>1, SignInTypes, FreshIdentity, CallbackCodes DEF HopsOK
<1>5. CASE Reload \/ logout
  <2>1. hops' = 0 /\ oidc' = oidc /\ cb' = NoCallback
    BY <1>5 DEF Reload, Load, logout, Unload
  <2> QED
    BY <1>1, <1>5, <2>1, SignInTypes, FreshIdentity, CodesKept DEF HopsOK
<1>6. CASE handleCallback \/ ExchangeFails
  <2>1. UNCHANGED <<store, auth, op, overlap, hops, route, kiosk>>
    BY <1>6 DEF handleCallback, ExchangeFails
  <2> QED
    BY <1>1, <1>6, <2>1, SignInTypes, FrameIdentity, RedirectKept, CallbackCodes
<1>7. CASE ExchangeSucceeds
  <2>1. UNCHANGED <<hops, route, kiosk>> /\ auth' = [auth EXCEPT !.token = "acct"] /\ auth \in Sessions
    BY <1>1, <1>7 DEF ExchangeSucceeds, acceptToken, SessionTypes
  <2>2. /\ auth'.status = auth.status /\ auth'.account = auth.account
        /\ auth'.household = auth.household /\ auth'.member = auth.member /\ auth'.active = auth.active
    BY <2>1 DEF Sessions
  <2>3. HopsOK'
    BY <1>1, <2>1, <2>2, RedirectKept
  <2>4. IdentityOK'
    BY <1>1, <1>7, HydrationIdentity DEF Slots
  <2> QED
    BY <1>1, <1>7, <2>3, <2>4, SignInTypes, CallbackCodes
<1>8. CASE CallbackLeaves
  <2>1. UNCHANGED <<store, auth, op, overlap>> /\ hops' = 0 /\ oidc' = oidc /\ cb' = NoCallback
    BY <1>8 DEF CallbackLeaves
  <2> QED
    BY <1>1, <1>8, <2>1, SignInTypes, FrameIdentity, CodesKept DEF HopsOK
<1>9. CASE handleLockClick \/ handleSelectMember \/ handleBack \/ handleDigit \/ handleBackspace \/ handlePinDigit
  <2>1. UNCHANGED <<store, auth, op, overlap, oidc, cb>> /\ hops' = 0
    BY <1>9 DEF handleLockClick, handleSelectMember, handleBack, handleDigit, handleBackspace, handlePinDigit, PadUnchanged
  <2> QED
    BY <1>1, <1>9, <2>1, KeyTypes, FrameIdentity, CodesKept DEF HopsOK
<1>10. ASSUME NEW s \in PinSlots, handleSubmit(s) \/ handleLastDigit(s) PROVE SessionTypes' /\ IdentityOK' /\ HopsOK' /\ CodesOK'
  <2>1. oidc' = oidc /\ cb' = cb /\ hops' = 0
    BY <1>10 DEF handleSubmit, handleLastDigit, pinLogin
  <2> QED
    BY <1>1, <1>10, <2>1, PinTypes, FrameIdentity, CodesKept DEF HopsOK
<1>11. ASSUME NEW s \in PinSlots, PinAccepted(s) PROVE SessionTypes' /\ IdentityOK' /\ HopsOK' /\ CodesOK'
  <2>1. UNCHANGED <<hops, route, kiosk>> /\ auth' = [auth EXCEPT !.token = op[s].tok] /\ auth \in Sessions
    BY <1>1, <1>11 DEF PinAccepted, SessionTypes
  <2>2. /\ auth'.status = auth.status /\ auth'.account = auth.account
        /\ auth'.household = auth.household /\ auth'.member = auth.member /\ auth'.active = auth.active
    BY <2>1 DEF Sessions
  <2>3. HopsOK'
    BY <1>1, <2>1, <2>2, RedirectKept
  <2>4. IdentityOK'
    BY <1>1, <1>11, HydrationIdentity DEF Slots, PinSlots
  <2>5. oidc' = oidc /\ cb' = cb
    BY <1>11 DEF PinAccepted
  <2> QED
    BY <1>1, <1>11, <2>3, <2>4, <2>5, PinTypes, CodesKept
<1>12. ASSUME NEW s \in PinSlots, PinRefused(s) PROVE SessionTypes' /\ IdentityOK' /\ HopsOK' /\ CodesOK'
  <2>1. oidc' = oidc /\ cb' = cb /\ hops' = 0
    BY <1>12 DEF PinRefused
  <2> QED
    BY <1>1, <1>12, <2>1, PinTypes, FrameIdentity, CodesKept DEF HopsOK
<1>13. CASE \E s \in Slots : hydrate(s) \/ hydrateFails(s)
  <2>1. PICK s \in Slots : hydrate(s) \/ hydrateFails(s)
    BY <1>13
  <2>2. PICK ok \in BOOLEAN : AfterHydrate(s, ok)
    BY <2>1 DEF hydrate, hydrateFails
  <2>3. oidc' = oidc /\ hops' = 0 /\ (cb' = cb \/ cb' = NoCallback)
    BY <1>1, <2>1, <2>2, AfterTypes DEF hydrate, hydrateFails
  <2> QED
    BY <1>1, <2>1, <2>3, HydrationTypes, HydrationIdentity, CodesKept DEF HopsOK
<1>14. CASE refresh
  <2>1. UNCHANGED <<hops, route, kiosk, auth, oidc, cb>>
    BY <1>14 DEF refresh
  <2>2. "refresh" \in Slots
    BY DEF Slots
  <2> QED
    BY <1>1, <1>14, <2>1, <2>2, HydrationTypes, HydrationIdentity, RedirectKept, CodesKept
<1>15. CASE lockKiosk \/ setActiveMember \/ handleSelect
  <2>1. oidc' = oidc /\ cb' = cb /\ hops' = 0
    BY <1>15 DEF lockKiosk, setActiveMember, handleSelect
  <2> QED
    BY <1>1, <1>15, <2>1, RouteTypes, FrameIdentity, CodesKept DEF HopsOK
<1>16. CASE GateRedirects
  <2>1. UNCHANGED <<store, auth, op, overlap, oidc, cb>>
    BY <1>16 DEF GateRedirects
  <2> QED
    BY <1>1, <1>16, <2>1, RouteTypes, FrameIdentity, RedirectOnce, CodesKept
<1>17. CASE Navigate
  <2>1. UNCHANGED <<store, auth, op, overlap, oidc, cb>> /\ hops' = 0
    BY <1>17 DEF Navigate
  <2> QED
    BY <1>1, <1>17, <2>1, RouteTypes, FrameIdentity, CodesKept DEF HopsOK
<1>18. CASE UNCHANGED vars
  BY <1>1, <1>18, FrameIdentity, RedirectKept, CodesKept DEF vars, SessionTypes
<1> QED
  BY <1>3, <1>4, <1>5, <1>6, <1>7, <1>8, <1>9, <1>10, <1>11, <1>12, <1>13, <1>14, <1>15, <1>16, <1>17, <1>18
  DEF Next, User, Answers, Effects

\* The invariant holds of every behaviour of the tab.
THEOREM SessionInvHolds == Spec => []SessionInv
  BY InitInv, NextInv, PTL DEF Spec

\* The session store, the sign-in stash, the pad and the operations keep their types; in
\* particular the pad never holds more than PinMax digits.
THEOREM SessionTypeCorrect == Spec => []TypeOK
<1>1. SessionInv => TypeOK
  BY DEF SessionInv
<1> QED
  BY <1>1, SessionInvHolds, PTL

\* Unless two hydrations have overlapped, the account the store shows is the owner of the
\* token that requests carry, as soon as nothing is under way.
THEOREM IdentityMatchesTokenHolds == Spec => []IdentityMatchesToken
<1>1. SessionInv => IdentityMatchesToken
  BY DEF SessionInv, IdentityOK, IdentityMatchesToken, InFlight
<1> QED
  BY <1>1, SessionInvHolds, PTL

\* The gates redirect at most once in a row: where a redirect leads, no gate redirects again.
THEOREM NoRedirectLoopHolds == Spec => []NoRedirectLoop
<1>1. SessionInv => NoRedirectLoop
  BY DEF SessionInv, HopsOK, NoRedirectLoop
<1> QED
  BY <1>1, SessionInvHolds, PTL

\* A step that starts an exchange starts it for an attempt whose code was not used.
LEMMA ExchangeFresh ==
    SessionInv /\ [Next]_vars
      => [\A a \in oidc.used : cb'.at = "exchange" /\ cb.at # "exchange" => cb'.attempt # a]_vars
<1> SUFFICES ASSUME SessionInv, [Next]_vars, NEW a \in oidc.used, cb'.at = "exchange", cb.at # "exchange"
             PROVE  cb'.attempt # a
  OBVIOUS
<1>1. cb \in Callbacks /\ CodesOK /\ NoCallback.at # "exchange"
  BY TypesNamed DEF SessionInv, SessionTypes, NoCallback, None
<1>2. CASE handleCallback
  <2>1. cb'.attempt = cb.attempt /\ oidc.saved = cb.attempt
    BY <1>1, <1>2 DEF handleCallback, Callbacks
  <2> QED
    BY <1>1, <2>1 DEF CodesOK
<1>3. CASE cb' = cb \/ cb' = NoCallback
  BY <1>1, <1>3
<1>4. CASE CognitoReturns \/ ExchangeSucceeds \/ ExchangeFails
  <2>1. cb'.at # "exchange"
    BY <1>1, <1>4 DEF CognitoReturns, Load, ExchangeSucceeds, ExchangeFails, Callbacks
  <2> QED
    BY <2>1
<1>5. CASE \E s \in Slots : hydrate(s) \/ hydrateFails(s)
  <2>1. PICK s \in Slots, ok \in BOOLEAN : AfterHydrate(s, ok)
    BY <1>5 DEF hydrate, hydrateFails
  <2>2. SessionTypes
    BY TypesNamed DEF SessionInv
  <2> QED
    BY <1>3, <2>1, <2>2, AfterTypes
<1>6. CASE Reload \/ logout \/ signIn
  BY <1>3, <1>6 DEF Reload, Load, logout, signIn, Unload
<1>7. CASE \/ CallbackLeaves \/ GateRedirects \/ Navigate \/ refresh
           \/ (\E s \in PinSlots : handleSubmit(s) \/ handleLastDigit(s) \/ PinAccepted(s) \/ PinRefused(s))
           \/ lockKiosk \/ setActiveMember \/ handleSelect
           \/ handleLockClick \/ handleSelectMember \/ handleBack \/ handleDigit \/ handleBackspace \/ handlePinDigit
           \/ UNCHANGED vars
  BY <1>3, <1>7 DEF CallbackLeaves, PinAccepted, PinRefused, GateRedirects, Navigate, refresh, handleSubmit,
     handleLastDigit, pinLogin, lockKiosk, setActiveMember, handleSelect, handleLockClick, handleSelectMember, handleBack,
     handleDigit, handleBackspace, handlePinDigit, PadUnchanged, vars
<1> QED
  BY <1>2, <1>4, <1>5, <1>6, <1>7 DEF Next, User, Answers, Effects

\* The authorization code of an attempt is exchanged at most once: handleCallback takes the
\* stash with it, so an old callback page signs nobody in.
THEOREM AttemptUsedOnceHolds == Spec => AttemptUsedOnce
  BY SessionInvHolds, ExchangeFresh, PTL DEF Spec, AttemptUsedOnce
=============================================================================
