---------------------------- MODULE EventEditor -----------------------------
(***************************************************************************)
(* The calendar page's event form (web/src/app/calendar/page.tsx and       *)
(* EventModal in components/screens/calendar.tsx) with the event of the    *)
(* page's ?event= link (useLiveEvent), the server's events and another     *)
(* device that edits them.  An event is one number, standing for every     *)
(* field whose change re-seeds the form; 0 is no event, and a blank title. *)
(* The calendar behind the form shows the server's events.                 *)
(***************************************************************************)
EXTENDS Integers, FiniteSets

CONSTANTS MaxSaves, \* bound on the requests the form sends
          MaxActs   \* bound on what the user and the other device do

VARIABLES events,  \* the server's events
          created, \* how many the form has added
          linked,  \* eventFromQuery of every event the page linked to
          fetch,   \* the fetch of a linked event: idle, asked, or the row served
          link,    \* ?event=
          modal,   \* modalEvent
          form,    \* the form's values, and the events they were entered for
          busy,    \* a mutation of this mount is pending
          writes,  \* requests in flight
          count    \* bounds, and what the properties count

editVars == <<events, created, linked, fetch, link, modal, form, busy, writes, count>>

Ids == {"a", "b"}
New == "new"
None == "none"
NoRow == 0
Rows == 1..2
Shown(e, row) == [id |-> e, row |-> row]
NoModal == Shown(None, NoRow)
NoForm == [row |-> NoRow, of |-> {}]
Idle == [st |-> "idle", row |-> NoRow]
Asked == [st |-> "asked", row |-> NoRow]

EditTypeOK ==
    /\ events \in [Ids -> 0..2] /\ linked \in [Ids -> 0..2]
    /\ created \in 0..MaxSaves
    /\ \A e \in Ids : fetch[e] \in {Idle, Asked} \cup [st : {"served"}, row : Rows]
    /\ link \in Ids \cup {None}
    /\ modal \in [id : Ids \cup {New, None}, row : 0..2]
    /\ form \in [row : 0..2, of : SUBSET (Ids \cup {New})]
    /\ busy \in BOOLEAN
    /\ writes \subseteq [n : 1..MaxSaves, kind : {"create", "update", "delete"}, id : Ids \cup {New},
                         row : 0..2, of : SUBSET (Ids \cup {New}), heard : BOOLEAN,
                         st : {"sent", "ok", "failed"}]
    /\ count \in [acts : 0..MaxActs, saves : 0..MaxSaves, forms : 0..MaxActs,
                  lost : 0..MaxSaves, deleted : SUBSET Ids]

EditInit ==
    /\ events = [e \in Ids |-> 1] /\ created = 0
    /\ linked = [e \in Ids |-> NoRow] /\ fetch = [e \in Ids |-> Idle]
    /\ link = None /\ modal = NoModal /\ form = NoForm
    /\ busy = FALSE /\ writes = {}
    /\ count = [acts |-> 0, saves |-> 0, forms |-> 0, lost |-> 0, deleted |-> {}]

-----------------------------------------------------------------------------
(* Opening the form.                                                       *)

\* Mutant: the effect does not depend on the event's id.
SeededByValue(m, old, f) ==
    IF old.id = None \/ old.row # m.row THEN [row |-> m.row, of |-> {m.id}] ELSE f

\* The form's values when the modal's event goes from old to m: seeded when it
\* mounts and when one of the effect's dependencies changed, kept otherwise.
Seeded(m, old, f) ==
    IF old.id = None \/ old.id # m.id \/ old.row # m.row THEN [row |-> m.row, of |-> {m.id}] ELSE f

\* The effect on eventFromQuery, run on a modal m and a form f.
ShowLinked(row, e, m, f) ==
    IF row = NoRow THEN modal' = m /\ form' = f
    ELSE modal' = Shown(e, row) /\ form' = Seeded(Shown(e, row), m, f)

\* useLiveEvent for a new id: what is cached at once, and a fetch unless it is fresh.
StartFetch(e) ==
    \/ fetch[e] = Idle /\ fetch' = [fetch EXCEPT ![e] = Asked]
    \/ (linked[e] # NoRow \/ fetch[e] # Idle) /\ UNCHANGED fetch

openEvent(e) ==
    /\ modal.id = None /\ events[e] # NoRow /\ count.acts < MaxActs
    /\ link' = e
    /\ LET m == Shown(e, events[e])
           f == Seeded(m, NoModal, form)
       IN  IF link = e THEN modal' = m /\ form' = f /\ UNCHANGED fetch
           ELSE ShowLinked(linked[e], e, m, f) /\ StartFetch(e)
    /\ count' = [count EXCEPT !.acts = @ + 1, !.deleted = @ \ {e}]
    /\ UNCHANGED <<events, created, linked, busy, writes>>

\* The browser's back and forward change the link under the open page.
navigate(e) ==
    /\ e # link /\ link' = e /\ count.acts < MaxActs
    /\ IF e = None THEN UNCHANGED <<fetch, modal, form>>
       ELSE ShowLinked(linked[e], e, modal, form) /\ StartFetch(e)
    /\ count' = [count EXCEPT !.acts = @ + 1, !.deleted = @ \ {e}]
    /\ UNCHANGED <<events, created, linked, busy, writes>>

\* The bar's button is above the form, so it works while one is open.
newEvent ==
    /\ modal.id # New /\ count.acts < MaxActs
    /\ modal' = Shown(New, NoRow) /\ form' = Seeded(modal', modal, form)
    /\ count' = [count EXCEPT !.acts = @ + 1, !.forms = @ + 1]
    /\ UNCHANGED <<events, created, linked, fetch, link, busy, writes>>

\* Cancel, or a click on the backdrop, which does not ask whether a request is
\* pending; the mount's callbacks go with it.
onClose ==
    /\ modal.id # None
    /\ modal' = NoModal /\ form' = NoForm /\ busy' = FALSE
    /\ writes' = {[w EXCEPT !.heard = FALSE] : w \in writes}
    /\ UNCHANGED <<events, created, linked, fetch, link, count>>

setField ==
    /\ modal.id # None
    /\ \E row \in 0..2 \ {form.row} : form' = [row |-> row, of |-> form.of \cup {modal.id}]
    /\ UNCHANGED <<events, created, linked, fetch, link, modal, busy, writes, count>>

-----------------------------------------------------------------------------
(* Saving and deleting.                                                    *)

Send(kind) ==
    /\ count.saves < MaxSaves /\ count.acts < MaxActs
    /\ count' = [count EXCEPT !.acts = @ + 1, !.saves = @ + 1]
    /\ writes' = writes \cup
         {[n |-> count.saves + 1, kind |-> kind, id |-> modal.id,
           row |-> form.row, of |-> form.of, heard |-> TRUE, st |-> "sent"]}
    /\ busy' = TRUE
    /\ UNCHANGED <<events, created, linked, fetch, link, modal, form>>


\* The footer: its buttons are disabled while busy, and Delete is for an event that exists.
SaveOffered == modal.id # None /\ ~busy
DeleteOffered == modal.id \in Ids /\ ~busy

\* A blank title only shows an error.
handleSave ==
    /\ SaveOffered /\ form.row # 0
    /\ Send(IF modal.id = New THEN "create" ELSE "update")

handleDelete == DeleteOffered /\ Send("delete")

\* The server takes a request, or never sees it; its answer may be lost.
ServerTakes(w) ==
    /\ w.st = "sent"
    /\ LET found == IF w.id = New THEN TRUE ELSE events[w.id] # NoRow
           to(st) == writes' = (writes \ {w}) \cup {[w EXCEPT !.st = st]}
       IN  \/ to("failed") /\ UNCHANGED <<events, created, count>>
           \/ /\ found
              /\ CASE w.kind = "create" -> created' = created + 1 /\ UNCHANGED events
                   [] w.kind = "update" -> events' = [events EXCEPT ![w.id] = w.row] /\ UNCHANGED created
                   [] w.kind = "delete" -> events' = [events EXCEPT ![w.id] = NoRow] /\ UNCHANGED created
              /\ \/ to("ok") /\ UNCHANGED count
                 \/ to("failed") /\ count' = [count EXCEPT !.lost = @ + 1]
    /\ UNCHANGED <<linked, fetch, link, modal, form, busy>>

\* Invalidating ["events"] cancels the link's fetch and asks again.
Invalidated == IF link # None THEN [fetch EXCEPT ![link] = Asked] ELSE fetch


\* The hook's onSuccess always runs, the form's callbacks only while it is mounted.
Answered(w) ==
    /\ w.st # "sent" /\ writes' = writes \ {w}
    /\ fetch' = IF w.st = "ok" THEN Invalidated ELSE fetch
    /\ busy' = IF w.heard THEN FALSE ELSE busy
    /\ modal' = IF w.heard /\ w.st = "ok" THEN NoModal ELSE modal
    /\ form' = IF w.heard /\ w.st = "ok" THEN NoForm ELSE form
    /\ count' = IF w.st = "ok" /\ w.kind = "delete" /\ modal'.id # w.id
                THEN [count EXCEPT !.deleted = @ \cup {w.id}] ELSE count
    /\ UNCHANGED <<events, created, linked, link>>

-----------------------------------------------------------------------------
(* What the page fetches, and the other device.                            *)

FetchServed(e) ==
    /\ fetch[e] = Asked
    /\ fetch' = [fetch EXCEPT ![e] = IF events[e] = NoRow THEN Idle ELSE [st |-> "served", row |-> events[e]]]
    /\ UNCHANGED <<events, created, linked, link, modal, form, busy, writes, count>>

\* Equal data keeps its identity, so the effect runs only on a change.
FetchLands(e) ==
    /\ fetch[e].st = "served" /\ fetch' = [fetch EXCEPT ![e] = Idle]
    /\ linked' = [linked EXCEPT ![e] = fetch[e].row]
    /\ IF e = link /\ linked[e] # fetch[e].row THEN ShowLinked(fetch[e].row, e, modal, form)
       ELSE UNCHANGED <<modal, form>>
    /\ UNCHANGED <<events, created, link, busy, writes, count>>

\* The browser is online again: what the page uses is fetched once more.
Reconnect ==
    /\ link # None /\ fetch[link] = Idle /\ fetch' = [fetch EXCEPT ![link] = Asked]
    /\ count.acts < MaxActs /\ count' = [count EXCEPT !.acts = @ + 1]
    /\ UNCHANGED <<events, created, linked, link, modal, form, busy, writes>>

OtherDevice ==
    /\ count.acts < MaxActs /\ count' = [count EXCEPT !.acts = @ + 1]
    /\ \E e \in Ids, row \in 0..2 :
          events[e] \notin {NoRow, row} /\ events' = [events EXCEPT ![e] = row]
    /\ UNCHANGED <<created, linked, fetch, link, modal, form, busy, writes>>

EditNext ==
    \/ \E e \in Ids : openEvent(e) \/ FetchServed(e) \/ FetchLands(e)
    \/ \E e \in Ids \cup {None} : navigate(e)
    \/ newEvent \/ onClose \/ setField \/ handleSave \/ handleDelete
    \/ \E w \in writes : ServerTakes(w) \/ Answered(w)
    \/ Reconnect \/ OtherDevice

-----------------------------------------------------------------------------
\* An update never carries what was entered or seeded for another event, even
\* though links, refetches and the page's button swap the event under one
\* mounted form (the dependencies of EventModal's effect).
NoCrossEdit == \A w \in writes : w.kind # "create" => w.of \subseteq {w.id}

\* The form adds an event twice only after a lost answer: each form opened adds
\* at most one, besides the retries of requests whose answer never came (busy).
DuplicateOnlyByRetry == created <= count.forms + count.lost

\* An event this page has deleted does not come back by itself: no fetch that was
\* under way opens the form on it (the invalidation cancels the link's fetch).
NoGhost == modal.id \notin count.deleted

\* A disabled form waits for somebody: while its buttons are disabled an answer is
\* under way that will enable them, good or bad (busy).
BusyIsAwaited == busy => \E w \in writes : w.heard

\* The form does what was entered in it (EventModal): to the event it was entered for,
\* once, never to a deleted one brought back, and it does not lock for good.
FormHonest == NoCrossEdit /\ DuplicateOnlyByRetry /\ NoGhost /\ BusyIsAwaited
=============================================================================
