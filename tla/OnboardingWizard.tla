-------------------------- MODULE OnboardingWizard --------------------------
(***************************************************************************)
(* The onboarding wizard (web/src/app/onboarding/page.tsx and              *)
(* components/screens/onboarding.tsx) with the households its requests     *)
(* create.  A text field is filled or not; a member draft is a number, and *)
(* the two copies a retry may leave of it on the server are one.           *)
(***************************************************************************)
EXTENDS Integers, Sequences, SequencesExt

CONSTANT Limits  \* the bounds to check: how many households and how many drafts are made

VARIABLES limit,  \* the bounds of this behaviour
          wiz,    \* the React state of the page
          call,   \* the advance() under way, with the state it closed over
          rolls   \* the households on the server, each the set of its members

wizVars == <<limit, wiz, call, rolls>>

\* The steps after the welcome and the account page (0 and 1).
HouseholdStep == 2
SelfStep      == 3
FamilyStep    == 4
CalendarStep  == 5
LandingStep   == 6
TOTAL         == 7
Roles == {"adult", "child", "pet"}
EmptyDraft == [role |-> "adult", pin |-> FALSE, named |-> FALSE]
Member(who, role, pin, linked) == [who |-> who, role |-> role, pin |-> pin, linked |-> linked]
Self == Member(0, "adult", FALSE, TRUE)

\* The page at mount: known is what /v1/auth/me said of the account's member.
Fresh(step, known) ==
    [step |-> step, busy |-> FALSE, err |-> FALSE, named |-> FALSE, hid |-> 0, selfNamed |-> FALSE,
     family |-> <<>>, draft |-> EmptyDraft, made |-> 0, reviewed |-> FALSE, known |-> known, home |-> FALSE]
NoCall == [at |-> "idle", step |-> 0, hid |-> 0, todo |-> <<>>, drafts |-> {}]

\* The account's member can be found: some household has the linked self.
Linked(rs) == \E h \in DOMAIN rs : Self \in rs[h]

TypeOK ==
    /\ limit \in Limits
    /\ wiz.step \in 0..TOTAL - 1 /\ wiz.hid \in 0..Len(rolls) /\ wiz.made \in 0..limit.drafts
    /\ \A i \in DOMAIN wiz.family : wiz.family[i] \in [who : 1..limit.drafts, role : Roles, pin : BOOLEAN, linked : {FALSE}]
    /\ wiz.draft \in [role : Roles, pin : BOOLEAN, named : BOOLEAN]
    /\ call.at \in {"idle", "household", "self", "refresh", "family"}
    /\ wiz.busy <=> call.at # "idle"
    /\ Len(rolls) <= limit.households

Init ==
    /\ limit \in Limits
    /\ wiz = Fresh(0, FALSE)
    /\ call = NoCall /\ rolls = <<>>

-----------------------------------------------------------------------------
(* The fields of the steps.                                                *)

setHouseholdName ==
    /\ wiz.step = HouseholdStep /\ wiz' = [wiz EXCEPT !.named = TRUE]
    /\ UNCHANGED <<call, rolls>>
setSelfName ==
    /\ wiz.step = SelfStep /\ wiz' = [wiz EXCEPT !.selfNamed = TRUE]
    /\ UNCHANGED <<call, rolls>>

\* ObFamily: name, role and PIN of the draft; a role other than child drops
\* the PIN that was typed.
setDraft ==
    /\ wiz.step = FamilyStep /\ ~wiz.home
    /\ \/ wiz' = [wiz EXCEPT !.draft.named = TRUE]
       \/ \E r \in Roles : wiz' = [wiz EXCEPT !.draft.role = r, !.draft.pin = @ /\ r = "child"]
       \/ wiz.draft.role = "child" /\ wiz' = [wiz EXCEPT !.draft.pin = TRUE]
    /\ UNCHANGED <<call, rolls>>

addFamilyDraft ==
    /\ wiz.step = FamilyStep /\ wiz.made < limit.drafts
    /\ wiz' = IF ~wiz.draft.named THEN [wiz EXCEPT !.err = TRUE]
              ELSE [wiz EXCEPT !.err = FALSE, !.draft = EmptyDraft, !.made = @ + 1,
                      !.family = Append(@, Member(wiz.made + 1, wiz.draft.role, wiz.draft.pin, FALSE))]
    /\ UNCHANGED <<call, rolls>>

removeFamilyDraft ==
    /\ wiz.step = FamilyStep
    /\ \E i \in DOMAIN wiz.family : wiz' = [wiz EXCEPT !.family = RemoveAt(@, i)]
    /\ UNCHANGED <<call, rolls>>

setRosterReviewed ==
    /\ wiz.step = FamilyStep /\ wiz' = [wiz EXCEPT !.reviewed = ~@]
    /\ UNCHANGED <<call, rolls>>

-----------------------------------------------------------------------------
(* advance(): the button is disabled while one runs.  What it awaits goes  *)
(* on with the step and the household of the click.                        *)

Ready == ~wiz.busy /\ ~wiz.home
Begin(at, todo) ==
    /\ wiz' = [wiz EXCEPT !.err = FALSE, !.busy = TRUE]
    /\ call' = [at |-> at, step |-> wiz.step, hid |-> wiz.hid, todo |-> todo,
                drafts |-> {d.who : d \in Range(todo)}]
    /\ UNCHANGED rolls

\* A missing name, or a roster that was not reviewed.
advanceRefused ==
    /\ Ready
    /\ \/ wiz.step = HouseholdStep /\ ~wiz.named
       \/ wiz.step = SelfStep /\ wiz.hid # 0 /\ ~wiz.selfNamed
       \/ wiz.step = FamilyStep /\ wiz.hid # 0 /\ ~wiz.reviewed
    /\ wiz' = [wiz EXCEPT !.err = TRUE]
    /\ UNCHANGED <<call, rolls>>

createHousehold == Ready /\ wiz.step = HouseholdStep /\ wiz.named /\ Len(rolls) < limit.households /\ Begin("household", <<>>)
addSelf == Ready /\ wiz.step = SelfStep /\ wiz.hid # 0 /\ wiz.selfNamed /\ Begin("self", <<>>)
addFamily ==
    Ready /\ wiz.step = FamilyStep /\ wiz.hid # 0 /\ wiz.reviewed /\ wiz.family # <<>> /\ Begin("family", wiz.family)

To(step) == [wiz EXCEPT !.step = step, !.err = FALSE, !.busy = FALSE]

\* Mutant: the step that adds oneself is skipped without a name.
advancePlainSkipsSelf ==
    /\ Ready /\ wiz.step < TOTAL - 1 /\ wiz.step # HouseholdStep
    /\ wiz.step = SelfStep => wiz.hid = 0 \/ ~wiz.selfNamed
    /\ wiz.step = FamilyStep => wiz.hid = 0 \/ (wiz.reviewed /\ wiz.family = <<>>)
    /\ wiz' = To(wiz.step + 1)
    /\ UNCHANGED <<call, rolls>>

\* The steps that ask the server for nothing.
advancePlain ==
    /\ Ready /\ wiz.step < TOTAL - 1 /\ wiz.step # HouseholdStep
    /\ wiz.step = SelfStep => wiz.hid = 0
    /\ wiz.step = FamilyStep => wiz.hid = 0 \/ (wiz.reviewed /\ wiz.family = <<>>)
    /\ wiz' = To(wiz.step + 1)
    /\ UNCHANGED <<call, rolls>>

\* Step 6, by the button or its 2 s timer: home, unless the route gate finds
\* no member and mounts the wizard again.
finish ==
    /\ Ready /\ wiz.step = LandingStep
    /\ wiz' = IF wiz.known THEN [wiz EXCEPT !.home = TRUE] ELSE Fresh(0, FALSE)
    /\ UNCHANGED <<call, rolls>>

\* Mutant: the button works on the first step too.
backPastStart ==
    /\ ~wiz.home
    /\ wiz' = [wiz EXCEPT !.step = @ - 1, !.err = FALSE]
    /\ UNCHANGED <<call, rolls>>

\* Not disabled while advance() runs.
back ==
    /\ wiz.step > 0 /\ ~wiz.home
    /\ wiz' = [wiz EXCEPT !.step = @ - 1, !.err = FALSE]
    /\ UNCHANGED <<call, rolls>>

-----------------------------------------------------------------------------
(* Answers.                                                                *)

\* What the request of the call does to the households.
Applied ==
    CASE call.at = "household" -> Append(rolls, {})
      [] call.at = "self" -> [rolls EXCEPT ![call.hid] = @ \cup {Self}]
      [] call.at = "family" -> [rolls EXCEPT ![call.hid] = @ \cup {Head(call.todo)}]
      [] OTHER -> rolls

Done == wiz' = To(call.step + 1) /\ call' = NoCall

HouseholdCreated ==
    /\ call.at = "household"
    /\ rolls' = Applied
    /\ wiz' = [To(call.step + 1) EXCEPT !.hid = Len(rolls) + 1]
    /\ call' = NoCall

SelfAdded ==
    /\ call.at = "self"
    /\ rolls' = Applied
    /\ call' = [call EXCEPT !.at = "refresh"]
    /\ UNCHANGED wiz

\* refresh() never throws: the wizard goes on, hydrated or not.
RefreshEnds ==
    /\ call.at = "refresh"
    /\ \E ok \in BOOLEAN : wiz' = [To(call.step + 1) EXCEPT !.known = @ \/ ok]
    /\ call' = NoCall
    /\ UNCHANGED rolls

\* Mutant: the loop ends after its first request.
FamilyMemberAddedOnce ==
    /\ call.at = "family"
    /\ rolls' = Applied
    /\ Done

FamilyMemberAdded ==
    /\ call.at = "family"
    /\ rolls' = Applied
    /\ IF Len(call.todo) = 1 THEN Done
       ELSE call' = [call EXCEPT !.todo = Tail(@)] /\ UNCHANGED wiz

\* The request fails, or its answer is lost after the server did it.
CallFails ==
    /\ call.at \in {"household", "self", "family"}
    /\ rolls' \in {rolls, Applied}
    /\ wiz' = [wiz EXCEPT !.err = TRUE, !.busy = FALSE]
    /\ call' = NoCall

\* The page is loaded again, or opened by the return from the calendar's OAuth
\* page (?step=5&connected=1); a request under way may still reach the server.
Reload ==
    /\ ~wiz.home
    /\ rolls' \in {rolls, Applied}
    /\ wiz' \in {Fresh(0, Linked(rolls')), Fresh(CalendarStep, Linked(rolls'))} /\ call' = NoCall

Typing == \/ setHouseholdName \/ setSelfName \/ setDraft \/ addFamilyDraft \/ removeFamilyDraft
          \/ setRosterReviewed
Advance == advanceRefused \/ createHousehold \/ addSelf \/ addFamily \/ advancePlain
Answered == HouseholdCreated \/ SelfAdded \/ RefreshEnds \/ FamilyMemberAdded \/ CallFails
Next == (Typing \/ Advance \/ finish \/ back \/ Answered \/ Reload) /\ UNCHANGED limit

-----------------------------------------------------------------------------
\* Whatever was retried, gone back over or lost: past the steps that ask for
\* them, the household the wizard holds has the signed-in account as a member,
\* so that /v1/auth/me can resolve it after onboarding.
SelfLinked == wiz.step >= FamilyStep /\ wiz.hid # 0 => Self \in rolls[wiz.hid]

\* Only children sign in with a PIN, whatever role the draft had before.
PinIsForChildren == \A h \in DOMAIN rolls : \A m \in rolls[h] : m.pin => m.role = "child"

\* The household the wizard leaves behind can be signed in to: its owner is linked,
\* and PINs are for those who use them.
RosterHonest == SelfLinked /\ PinIsForChildren

\* The wizard moves on from the family step only with everybody who was listed
\* when it was told to: no member is skipped by a failure and its retry.
RosterSaved ==
    [][call.at = "family" /\ wiz'.step = CalendarStep /\ wiz.step # CalendarStep /\ wiz'.hid = wiz.hid =>
          \A d \in call.drafts : \E m \in rolls'[call.hid] : m.who = d]_wizVars
=============================================================================
