---------------------------- MODULE MCHousehold -----------------------------
(***************************************************************************)
(* The household's screens, one part per behaviour: the onboarding wizard, *)
(* joining by invite code, the calendar's form and its views, and the       *)
(* settings.  The parts not chosen rest in one initial state.              *)
(***************************************************************************)
EXTENDS Integers, Sequences

CONSTANTS Limits, MaxCodes, MaxRequests, MaxSaves, MaxActs, MaxClicks, MaxCards

VARIABLES part, limit, wiz, call, rolls,
          page, ask, lookups, codes, reqs, joined, dialogs,
          events, created, linked, fetch, link, modal, form, busy, writes, count,
          look,
          srv, list, hh, cards, saves, clicks

\* Households can be made and codes issued; the bounds are any numbers.
ASSUME BoundsAssumption ==
    /\ \A l \in Limits : l.households \in Nat /\ l.drafts \in Nat
    /\ MaxCodes \in Nat \ {0} /\ MaxRequests \in Nat /\ MaxSaves \in Nat /\ MaxActs \in Nat
    /\ MaxClicks \in Nat /\ MaxCards \in Nat

\* Two households, or two drafts in one.
MCLimits == {[households |-> 2, drafts |-> 1], [households |-> 1, drafts |-> 2]}

W == INSTANCE OnboardingWizard
J == INSTANCE HouseholdJoin
E == INSTANCE EventEditor
V == INSTANCE CalendarViews
C == INSTANCE SettingsCards

wizVars   == <<limit, wiz, call, rolls>>
joinVars  == <<page, ask, lookups, codes, reqs, joined, dialogs>>
editVars  == <<events, created, linked, fetch, link, modal, form, busy, writes, count>>
cardVars  == <<srv, list, hh, cards, saves, clicks>>
vars == <<part, look, wizVars, joinVars, editVars, cardVars>>

Init ==
    /\ part \in {"wizard", "join", "event form", "views", "settings"}
    /\ W!Init /\ (part # "wizard" => limit = CHOOSE l \in Limits : TRUE) /\ J!Init
    /\ E!EditInit /\ C!CardsInit
    /\ IF part = "views" THEN V!LookInit ELSE look = [kind |-> "none"]

Next ==
    /\ UNCHANGED <<part, look>>
    /\ \/ part = "wizard" /\ W!Next /\ UNCHANGED <<joinVars, editVars, cardVars>>
       \/ part = "join" /\ J!Next /\ UNCHANGED <<wizVars, editVars, cardVars>>
       \/ part = "event form" /\ E!EditNext /\ UNCHANGED <<wizVars, joinVars, cardVars>>
       \/ part = "settings" /\ C!CardsNext /\ UNCHANGED <<wizVars, joinVars, editVars>>

Spec == Init /\ [][Next]_vars

\* Every variable of the chosen part has its type.
TypeOK ==
    /\ part = "wizard" => W!TypeOK
    /\ part = "join" => J!TypeOK
    /\ part = "event form" => E!EditTypeOK
    /\ part = "settings" => C!CardsTypeOK

\* Setting up: who I am is in the family that was saved, and PINs are for children.
RosterHonest == W!RosterHonest
\* Joining: a code replaced before the request was sent opens nothing, and a
\* decision that no review is past its check of stands.
DoorKept == J!DoorKept
\* The calendar's form: an edit is about its own event, is saved once, does not
\* bring a deleted event back, and is not disabled for nothing.
FormHonest == E!FormHonest
\* The calendar's views show what there is.
ViewsExact == V!ViewsExact
\* "expanded to all occurrences within [start, end]" (internal/service/event.go).
AllOccurrences == V!AllOccurrences
\* The settings: forms are about one member and add once, the kiosk toggle is
\* true, and billing is disabled only while it waits.
CardsHonest == C!CardsHonest
\* What was saved is not lost on the way: the wizard leaves the family step with
\* everybody listed (advance), and no save erases a topic (UpdateMemberNotify).
NothingLost == W!RosterSaved /\ C!TopicKept
=============================================================================
