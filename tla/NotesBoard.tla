----------------------------- MODULE NotesBoard -----------------------------
(***************************************************************************)
(* The family's notes (web/src/lib/notes/use-notes.ts and                  *)
(* web/src/components/screens/notes.tsx).  The board is kept in the        *)
(* browser: every tab reads it once, when it mounts, and from then on      *)
(* writes its own copy.                                                    *)
(***************************************************************************)
EXTENDS Integers, Sequences

CONSTANTS Tabs,     \* the tabs of one browser
          MaxNotes, \* MAX_NOTES
          MaxPins   \* bound on the notes pinned, removed and on the reloads

VARIABLES stored, \* localStorage: the notes, newest first, as the time they were pinned
          tabs,   \* per tab: is it open, its notes, its draft, is an author known
          pins,   \* the clock, and the bound
          behind  \* tabs that another tab has written over since they read or wrote

noteVars == <<stored, tabs, pins, behind>>

Boards == UNION {[1..n -> 1..MaxPins] : n \in 0..MaxNotes}
Closed == [open |-> FALSE, notes |-> <<>>, draft |-> FALSE, author |-> FALSE]

NotesTypeOK ==
    /\ stored \in Boards /\ behind \subseteq Tabs /\ pins \in 0..MaxPins
    /\ tabs \in [Tabs -> [open : BOOLEAN, notes : Boards, draft : BOOLEAN, author : BOOLEAN]]

NotesInit == stored = <<>> /\ tabs = [t \in Tabs |-> Closed] /\ pins = 0 /\ behind = {}

Pin == pins < MaxPins /\ pins' = pins + 1

readNotes == stored

\* Mounting the board: the effect reads what is stored.
useNotes(t) ==
    /\ ~tabs[t].open /\ tabs' = [tabs EXCEPT ![t] = [Closed EXCEPT !.open = TRUE, !.notes = readNotes]]
    /\ behind' = behind \ {t} /\ UNCHANGED <<stored, pins>>

Leave(t) ==
    /\ tabs[t].open /\ Pin /\ tabs' = [tabs EXCEPT ![t] = Closed]
    /\ behind' = behind \ {t} /\ UNCHANGED stored

\* The draft is typed or cleared, the members arrive: activeMember or the first member is
\* the author.
setDraft(t) ==
    /\ tabs[t].open /\ tabs' = [tabs EXCEPT ![t].draft = ~@] /\ UNCHANGED <<stored, pins, behind>>
useMembers(t) ==
    /\ tabs[t].open /\ tabs' = [tabs EXCEPT ![t].author = TRUE] /\ UNCHANGED <<stored, pins, behind>>

\* Mutant: the notes are stored as they were before the change.
writeNotesLater(t, next) == stored' = tabs[t].notes /\ behind' = (behind \cup {u \in Tabs : tabs[u].open}) \ {t}

writeNotes(t, next) == stored' = next /\ behind' = (behind \cup {u \in Tabs : tabs[u].open}) \ {t}

\* Mutant: no slice.
addNoteUncapped(t) == <<pins + 1>> \o tabs[t].notes

\* [newNote, ...prev].slice(0, MAX_NOTES)
addNote(t) == LET all == <<pins + 1>> \o tabs[t].notes
              IN  SubSeq(all, 1, IF Len(all) < MaxNotes THEN Len(all) ELSE MaxNotes)

handleAdd(t) ==
    /\ tabs[t].draft /\ tabs[t].author /\ Pin
    /\ tabs' = [tabs EXCEPT ![t].notes = addNote(t), ![t].draft = FALSE]
    /\ writeNotes(t, addNote(t))

\* The cross on the card at place i: the ids differ, so the filter drops that card alone.
NoteCard(t) == DOMAIN tabs[t].notes
removeNote(t, i) ==
    /\ i \in NoteCard(t) /\ Pin
    /\ LET prev == tabs[t].notes
           next == [k \in 1..(Len(prev) - 1) |-> prev[IF k < i THEN k ELSE k + 1]]
       IN  tabs' = [tabs EXCEPT ![t].notes = next] /\ writeNotes(t, next)

NotesNext ==
    \E t \in Tabs : \/ useNotes(t) \/ Leave(t) \/ setDraft(t) \/ useMembers(t) \/ handleAdd(t)
                    \/ \E i \in 1..MaxNotes : removeNote(t, i)

-----------------------------------------------------------------------------
\* A tab that nobody wrote over shows the board as it is stored: what it pins and
\* removes is there after a reload, however full the board is.
UndisturbedIsStored == \A t \in Tabs : tabs[t].open /\ t \notin behind => tabs[t].notes = stored

\* The board is newest first in storage and in every tab, whichever tabs wrote and
\* in whatever order: so the cap drops the oldest note, and never the one just
\* pinned.
NewestFirst ==
    \A s \in {stored} \cup {tabs[t].notes : t \in Tabs} :
        \A i, j \in DOMAIN s : i < j => s[i] > s[j]

\* The board keeps what is pinned on it (useNotes): an undisturbed tab shows what is
\* stored, and the cap costs the oldest note.
BrowserKept == UndisturbedIsStored /\ NewestFirst
=============================================================================
