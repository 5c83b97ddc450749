---------------------------- MODULE SettingsCards ----------------------------
(***************************************************************************)
(* The cards of the settings page that write (web/src/app/settings/        *)
(* page.tsx): the family's members, kiosk mode, a member's notifications,  *)
(* the iCal form and billing, with the two cached queries they show        *)
(* (members, household) and another device.  A member's fields are one     *)
(* number, 0 a blank name and a member that does not exist.                *)
(***************************************************************************)
EXTENDS Integers, FiniteSets

CONSTANTS MaxClicks, \* bound on what the user and the other device do
          MaxCards   \* bound on the cards used in one behaviour, billing apart

VARIABLES srv,      \* what the server holds
          list,     \* useMembers: the members it holds, and its fetch
          hh,       \* useHousehold: kiosk_mode_enabled, and its fetch
          cards,    \* the cards' own state
          saves,    \* requests under way
          clicks    \* what was done, for the bound and the properties

cardVars == <<srv, list, hh, cards, saves, clicks>>

Members == {"mum", "kid"}
Fresh == "fresh"
Fetches(S) == [st : {"idle", "asked"}] \cup [st : {"served"}, got : S]
IdleFetch == [st |-> "idle"]
AskedFetch == [st |-> "asked"]

\* The form of FamilyCard, with those its fields were filled for; and the other cards at rest.
ClosedForm == [open |-> FALSE, editingId |-> Fresh, row |-> 0, of |-> {}]
Mounted(prefs) ==
    [member |-> ClosedForm, optimistic |-> {}, topic |-> 0, prefs |-> prefs,
     ical |-> FALSE, showForm |-> FALSE, busy |-> FALSE]

CardsTypeOK ==
    /\ srv \in [members : [Members -> 0..2], added : 0..MaxClicks, kiosk : BOOLEAN,
                topic : 0..1, prefs : BOOLEAN, calendars : 0..MaxClicks]
    /\ list.members \in [Members -> 0..2] /\ list.prefs \in BOOLEAN
    /\ list.fetch \in Fetches([members : [Members -> 0..2], prefs : BOOLEAN])
    /\ hh.kiosk \in BOOLEAN /\ hh.fetch \in Fetches(BOOLEAN)
    /\ cards \in [member : [open : BOOLEAN, editingId : Members \cup {Fresh}, row : 0..2,
                            of : SUBSET (Members \cup {Fresh})],
                  optimistic : SUBSET BOOLEAN, topic : 0..1, prefs : BOOLEAN,
                  ical : BOOLEAN, showForm : BOOLEAN, busy : BOOLEAN]
    /\ \A w \in saves : w.st \in {"sent", "ok", "failed"} /\ w.heard \in {"card", "page", "none"}
    /\ clicks \in [n : 0..MaxClicks, adds : 0..MaxClicks, icals : 0..MaxClicks,
                   lost : 0..MaxClicks, elsewhere : 0..1, left : 0..1,
                   at : SUBSET {"family", "kiosk", "notify", "calendars"}]

CardsInit ==
    /\ srv = [members |-> [m \in Members |-> 1], added |-> 0, kiosk |-> FALSE,
              topic |-> 0, prefs |-> FALSE, calendars |-> 0]
    /\ list = [members |-> srv.members, prefs |-> FALSE, fetch |-> IdleFetch]
    /\ hh = [kiosk |-> FALSE, fetch |-> IdleFetch]
    /\ cards = Mounted(FALSE)
    /\ saves = {}
    /\ clicks = [n |-> 0, adds |-> 0, icals |-> 0, lost |-> 0, elsewhere |-> 0, left |-> 0, at |-> {}]

Clicked == clicks.n < MaxClicks
Counted(card) == [clicks EXCEPT !.n = @ + 1, !.at = @ \cup {card}]
Usable(card) == Clicked /\ Cardinality(clicks.at \cup {card}) <= MaxCards
Click(card) == Usable(card) /\ clicks' = Counted(card)

\* isPending of a card's mutations in this mount.
isPending(kinds) == \E w \in saves : w.kind \in kinds /\ w.heard = "card"

Send(kind, body) ==
    saves' = saves \cup {[kind |-> kind, body |-> body, n |-> clicks.n, heard |-> "card", st |-> "sent"]}
NoBody == [id |-> Fresh]

-----------------------------------------------------------------------------
(* FamilyCard.                                                             *)

\* Mutant: editingId is not reset.
openAddKeepsId ==
    /\ Usable("family") /\ clicks' = [Counted("family") EXCEPT !.adds = @ + 1]
    /\ cards' = [cards EXCEPT !.member = [@ EXCEPT !.open = TRUE, !.row = 0, !.of = {Fresh}]]
    /\ UNCHANGED <<srv, list, hh, saves>>

openAdd ==
    /\ Usable("family") /\ clicks' = [Counted("family") EXCEPT !.adds = @ + 1]
    /\ cards' = [cards EXCEPT !.member = [open |-> TRUE, editingId |-> Fresh, row |-> 0, of |-> {Fresh}]]
    /\ UNCHANGED <<srv, list, hh, saves>>

\* The rows of the members' list, each with Edit and Remove.
MemberRow(m) == list.members[m] # 0

openEdit(m) ==
    /\ MemberRow(m) /\ Click("family")
    /\ cards' = [cards EXCEPT !.member =
                    [open |-> TRUE, editingId |-> m, row |-> list.members[m], of |-> {m}]]
    /\ UNCHANGED <<srv, list, hh, saves>>

cancelForm ==
    /\ cards.member.open
    /\ cards' = [cards EXCEPT !.member.open = FALSE, !.member.editingId = Fresh]
    /\ UNCHANGED <<srv, list, hh, saves, clicks>>

setForm ==
    /\ cards.member.open /\ Click("family")
    /\ \E row \in 0..2 \ {cards.member.row} :
          cards' = [cards EXCEPT !.member.row = row, !.member.of = @ \cup {cards.member.editingId}]
    /\ UNCHANGED <<srv, list, hh, saves>>

\* A blank name only shows an error; the button is disabled while one is pending.
handleSubmit ==
    /\ cards.member.open /\ cards.member.row # 0
    /\ ~isPending({"create", "update"}) /\ Click("family")
    /\ Send(IF cards.member.editingId = Fresh THEN "create" ELSE "update",
            [id |-> cards.member.editingId, row |-> cards.member.row, of |-> cards.member.of])
    /\ UNCHANGED <<srv, list, hh, cards>>

handleDelete(m) ==
    /\ MemberRow(m) /\ Click("family")
    /\ Send("delete", [id |-> m])
    /\ UNCHANGED <<srv, list, hh, cards>>

-----------------------------------------------------------------------------
(* The other cards.                                                        *)

\* What the kiosk toggle shows; an optimistic value of null is the empty set.
enabled == IF cards.optimistic = {} THEN hh.kiosk ELSE TRUE \in cards.optimistic

handleToggle ==
    /\ ~isPending({"settings"}) /\ Click("kiosk")
    /\ cards' = [cards EXCEPT !.optimistic = {~enabled}]
    /\ Send("settings", [kiosk |-> ~enabled])
    /\ UNCHANGED <<srv, list, hh>>

setNotify ==
    /\ Click("notify")
    /\ \/ cards' = [cards EXCEPT !.topic = 1 - @]
       \/ cards' = [cards EXCEPT !.prefs = ~@]
    /\ UNCHANGED <<srv, list, hh, saves>>

\* An empty topic is sent as null.
NotifyRequest == [topic |-> cards.topic, prefs |-> cards.prefs]
handleSave ==
    /\ ~isPending({"notify"}) /\ Click("notify")
    /\ Send("notify", NotifyRequest)
    /\ UNCHANGED <<srv, list, hh, cards>>

\* Typing the calendar's name and URL, and the button that shows or hides the form.
setIcal ==
    /\ cards.showForm /\ ~cards.ical /\ Usable("calendars")
    /\ cards' = [cards EXCEPT !.ical = TRUE]
    /\ clicks' = [Counted("calendars") EXCEPT !.icals = @ + 1]
    /\ UNCHANGED <<srv, list, hh, saves>>

setShowForm ==
    /\ Usable("calendars") /\ clicks' = [clicks EXCEPT !.at = @ \cup {"calendars"}]
    /\ cards' = [cards EXCEPT !.showForm = ~@]
    /\ UNCHANGED <<srv, list, hh, saves>>

submitIcal ==
    /\ cards.showForm /\ cards.ical /\ ~isPending({"ical"}) /\ Click("calendars")
    /\ Send("ical", NoBody)
    /\ UNCHANGED <<srv, list, hh, cards>>

\* handleUpgrade and handlePortal: one button or the other is shown.
handleBilling ==
    /\ ~cards.busy /\ Clicked /\ clicks' = [clicks EXCEPT !.n = @ + 1]
    /\ cards' = [cards EXCEPT !.busy = TRUE]
    /\ Send("billing", NoBody)
    /\ UNCHANGED <<srv, list, hh>>

-----------------------------------------------------------------------------
(* Requests, fetches, and leaving the page.                                *)

KeepsTopic(w) == [srv EXCEPT !.topic = IF w.body.topic = 0 THEN @ ELSE w.body.topic, !.prefs = w.body.prefs]

\* What the server holds once it has taken w.
Applied(w) ==
    CASE w.kind = "create"   -> [srv EXCEPT !.added = @ + 1]
      [] w.kind = "update"   -> [srv EXCEPT !.members[w.body.id] = w.body.row]
      [] w.kind = "delete"   -> [srv EXCEPT !.members[w.body.id] = 0]
      [] w.kind = "settings" -> [srv EXCEPT !.kiosk = w.body.kiosk]
      [] w.kind = "notify"   -> KeepsTopic(w)
      [] w.kind = "ical"     -> [srv EXCEPT !.calendars = @ + 1]
      [] w.kind = "billing"  -> srv

\* A request is taken, or fails; the answer to one that was taken may be lost.
ServerTakes(w) ==
    /\ w.st = "sent"
    /\ LET found == IF w.kind \in {"update", "delete"} THEN srv.members[w.body.id] # 0 ELSE TRUE
           to(st) == saves' = (saves \ {w}) \cup {[w EXCEPT !.st = st]}
       IN  \/ to("failed") /\ UNCHANGED <<srv, clicks>>
           \/ /\ found /\ srv' = Applied(w)
              /\ \/ to("ok") /\ UNCHANGED clicks
                 \/ to("failed") /\ clicks' = [clicks EXCEPT !.lost = @ + 1]
    /\ UNCHANGED <<list, hh, cards>>

\* The cards after the answer to w, when the card that sent it is still mounted.
Heard(w) ==
    CASE w.kind \in {"create", "update"} /\ w.st = "ok" ->
            [cards EXCEPT !.member.open = FALSE, !.member.editingId = Fresh]
      [] w.kind = "settings" /\ w.st = "failed" -> [cards EXCEPT !.optimistic = {}]
      [] w.kind = "ical" /\ w.st = "ok" -> [cards EXCEPT !.ical = FALSE, !.showForm = FALSE]
      [] w.kind = "billing" -> [cards EXCEPT !.busy = FALSE]
      [] OTHER -> cards

\* A loaded page: every query fetched, no card in use, nobody to hear old answers.
Loaded(rest) ==
    /\ list' = [members |-> srv.members, prefs |-> srv.prefs, fetch |-> IdleFetch]
    /\ hh' = [kiosk |-> srv.kiosk, fetch |-> IdleFetch]
    /\ cards' = Mounted(srv.prefs)
    /\ saves' = {[w EXCEPT !.heard = "none"] : w \in rest}

\* What the hooks' onSuccess invalidates; saving notifications invalidates nothing.
InvalidatesMembers(w) == w.kind \in {"create", "update", "delete"}
InvalidatesHousehold(w) == w.kind = "settings"

\* The hook's onSuccess invalidates; the checkout's URL takes the browser away,
\* even after the card has gone, and it comes back to a page loaded anew.
Answered(w) ==
    /\ w.st # "sent"
    /\ IF w.kind = "billing" /\ w.st = "ok" /\ w.heard # "none"
       THEN /\ Loaded(saves \ {w})
            /\ clicks' = [clicks EXCEPT !.left = IF saves = {w} THEN @ ELSE 1]
       ELSE /\ saves' = saves \ {w}
            /\ cards' = IF w.heard = "card" THEN Heard(w) ELSE cards
            /\ LET heard == w.st = "ok" /\ w.heard # "none"
               IN  /\ list' = IF heard /\ InvalidatesMembers(w) THEN [list EXCEPT !.fetch = AskedFetch] ELSE list
                   /\ hh' = IF heard /\ InvalidatesHousehold(w) THEN [hh EXCEPT !.fetch = AskedFetch] ELSE hh
            /\ UNCHANGED clicks
    /\ UNCHANGED srv

\* The queries' fetches: served, then stored; one that fails leaves what was cached.
FetchServed ==
    /\ \/ list.fetch = AskedFetch /\ UNCHANGED hh /\
              list' = [list EXCEPT !.fetch = [st |-> "served",
                         got |-> [members |-> srv.members, prefs |-> srv.prefs]]]
       \/ hh.fetch = AskedFetch /\ UNCHANGED list /\
              hh' = [hh EXCEPT !.fetch = [st |-> "served", got |-> srv.kiosk]]
    /\ UNCHANGED <<srv, cards, saves, clicks>>

FetchFails ==
    /\ Clicked /\ clicks' = [clicks EXCEPT !.n = @ + 1, !.lost = @ + 1]
    /\ \/ list.fetch # IdleFetch /\ list' = [list EXCEPT !.fetch = IdleFetch] /\ UNCHANGED hh
       \/ hh.fetch # IdleFetch /\ hh' = [hh EXCEPT !.fetch = IdleFetch] /\ UNCHANGED list
    /\ UNCHANGED <<srv, cards, saves>>

FetchLands ==
    /\ \/ list.fetch.st = "served" /\ UNCHANGED hh /\
              list' = [members |-> list.fetch.got.members, prefs |-> list.fetch.got.prefs,
                       fetch |-> IdleFetch]
       \/ hh.fetch.st = "served" /\ UNCHANGED list /\
              hh' = [kiosk |-> hh.fetch.got, fetch |-> IdleFetch]
    /\ UNCHANGED <<srv, cards, saves, clicks>>

\* Another page of the app and back: the cards mount again on what is cached, which
\* is fetched again when it is no longer fresh.
Revisit ==
    /\ Clicked
    /\ clicks' = [clicks EXCEPT !.n = @ + 1, !.left = IF saves = {} THEN @ ELSE 1]
    /\ cards' = Mounted(list.prefs)
    /\ saves' = {[w EXCEPT !.heard = IF @ = "card" THEN "page" ELSE @] : w \in saves}
    /\ \/ UNCHANGED <<list, hh>>
       \/ /\ list.fetch = IdleFetch /\ list' = [list EXCEPT !.fetch = AskedFetch]
          /\ hh.fetch = IdleFetch /\ hh' = [hh EXCEPT !.fetch = AskedFetch]
    /\ UNCHANGED srv

OtherDevice ==
    /\ Clicked /\ clicks.elsewhere = 0
    /\ clicks' = [clicks EXCEPT !.n = @ + 1, !.elsewhere = 1]
    /\ \/ \E m \in Members, row \in 0..2 :
             srv.members[m] \notin {0, row} /\ srv' = [srv EXCEPT !.members[m] = row]
       \/ srv' = [srv EXCEPT !.kiosk = ~@]
    /\ UNCHANGED <<list, hh, cards, saves>>

CardsNext ==
    \/ openAdd \/ cancelForm \/ setForm \/ handleSubmit
    \/ \E m \in Members : openEdit(m) \/ handleDelete(m)
    \/ handleToggle \/ setNotify \/ handleSave
    \/ setIcal \/ setShowForm \/ submitIcal \/ handleBilling
    \/ \E w \in saves : ServerTakes(w) \/ Answered(w)
    \/ FetchServed \/ FetchFails \/ FetchLands \/ Revisit \/ OtherDevice

-----------------------------------------------------------------------------
\* An update of a member carries only what was filled in for that member, and an
\* addition only what was entered in a form of its own, although one form serves
\* all of them and Edit and Add Member work while another is open (openAdd, openEdit).
NoMixedMember ==
    \A w \in saves : w.kind \in {"create", "update"} => w.body.of \subseteq {w.body.id}

\* What was filled in once is added once: a member or a calendar is added again from
\* the same form only after a lost answer (handleSubmit of FamilyCard, CalendarsCard).
AddedOnce ==
    /\ srv.added <= clicks.adds + clicks.lost
    /\ srv.calendars <= clicks.icals + clicks.lost

\* When nothing is under way the kiosk toggle shows what the server holds, whatever
\* failed in between, unless an answer was lost, a request was left behind or another
\* device wrote (handleToggle's optimistic value).
ToggleTrue ==
    (/\ \A w \in saves : w.kind # "settings"
     /\ hh.fetch = IdleFetch
     /\ clicks.lost = 0 /\ clicks.elsewhere = 0 /\ clicks.left = 0) => enabled = srv.kiosk

\* A notification topic that was saved is never erased, although the members' list does
\* not return topics and the row saves an empty field as null (UpdateMemberNotify).
TopicKept == [][srv.topic # 0 => srv'.topic # 0]_cardVars

\* Billing's buttons are disabled only while an answer is awaited, through failures,
\* visits to other pages and the way to the checkout and back (finally).
BillingAwaited == cards.busy => isPending({"billing"})

\* The cards do what was entered in them and show what came of it (FamilyCard,
\* CalendarsCard, KioskCard, BillingCard), across failures, visits and other devices.
CardsHonest == NoMixedMember /\ AddedOnce /\ ToggleTrue /\ BillingAwaited
=============================================================================
