---------------------------- MODULE RecipeShelf -----------------------------
(***************************************************************************)
(* The recipes page: the sidebar of collections, and the menu that files a *)
(* recipe under them (screens/recipe-collections.tsx and                   *)
(* recipes-with-collections.tsx), over the recipe collections of the       *)
(* server.  The menu knows only what was ticked in it since it opened.     *)
(***************************************************************************)
EXTENDS Integers, Sequences

CONSTANT MaxReqs \* bound on requests and changes elsewhere

VARIABLES server,   \* collections that exist, and those the recipe is filed under
          seen,     \* collections in the query cache
          ui,       \* selected collection, the menu, the dialog of a new collection
          assigned, \* ticks of the open menu
          busy,     \* the collection whose toggle is shown as under way
          reqs,     \* requests, in the order of mutate()
          missed   \* collections whose tick missed a callback or a change elsewhere

shelfVars == <<server, seen, ui, assigned, busy, reqs, missed>>

Cols == {1, 2, 3}
None == 0
MayAsk == Len(reqs) < MaxReqs

ShelfTypeOK ==
    /\ server \in [cols : SUBSET Cols, filed : SUBSET Cols] /\ server.filed \subseteq server.cols
    /\ seen \subseteq Cols /\ assigned \subseteq Cols /\ missed \subseteq Cols
    /\ ui \in [selected : {None} \cup Cols, menu : BOOLEAN, create : {"none", "menu", "sidebar"}, failed : BOOLEAN]
    /\ ui.create = "menu" => ui.menu
    /\ busy \in {None} \cup Cols
    /\ \A k \in DOMAIN reqs : reqs[k] \in [op : {"assign", "remove", "delete", "create", "other"}, col : {None} \cup Cols,
                                           at : {"sent", "done", "lost", "over"}, live : BOOLEAN]
    /\ Len(reqs) <= MaxReqs

ShelfInit ==
    /\ server \in {[cols |-> {1, 2}, filed |-> f] : f \in {{}, {1}}}
    /\ seen = server.cols
    /\ ui = [selected |-> None, menu |-> FALSE, create |-> "none", failed |-> FALSE]
    /\ assigned = {} /\ busy = None /\ reqs = <<>> /\ missed = {}

-----------------------------------------------------------------------------
(* The page and its dialogs.                                               *)

Ops == {"assign", "remove"}
Unmount(ops) == [k \in DOMAIN reqs |-> IF reqs[k].op \in ops THEN [reqs[k] EXCEPT !.live = FALSE] ELSE reqs[k]]
Ask(op, c) == reqs' = Append(reqs, [op |-> op, col |-> c, at |-> "sent", live |-> TRUE])
InFlight(c) == \E k \in DOMAIN reqs : reqs[k].op \in Ops /\ reqs[k].col = c /\ reqs[k].at # "over"

\* Choosing a collection, or all recipes, also closes the menu.
onSelect ==
    /\ ~ui.menu /\ ui.create = "none"
    /\ \E c \in {None} \cup seen : c # ui.selected /\ ui' = [ui EXCEPT !.selected = c]
    /\ UNCHANGED <<server, seen, assigned, busy, reqs, missed>>

\* The card's button: only among all recipes.  The menu starts without ticks,
\* and what it asked for before is no longer heard.
openMenu ==
    /\ ui.selected = None /\ ~ui.menu /\ ui.create = "none"
    /\ ui' = [ui EXCEPT !.menu = TRUE]
    /\ assigned' = {} /\ busy' = None
    /\ missed' = {c \in Cols : InFlight(c)}
    /\ UNCHANGED <<server, seen, reqs>>
closeMenu ==
    /\ ui.menu /\ ui.create = "none"
    /\ ui' = [ui EXCEPT !.menu = FALSE]
    /\ assigned' = {} /\ busy' = None
    /\ reqs' = Unmount(Ops)
    /\ UNCHANGED <<server, seen, missed>>

\* A tick is an assignment, ticked again a removal; only the row shown as busy waits.
toggleShown(c) == ui.menu /\ ui.create = "none" /\ c \in seen /\ busy # c
toggle ==
    /\ MayAsk
    /\ \E c \in Cols :
          /\ toggleShown(c)
          /\ Ask(IF c \in assigned THEN "remove" ELSE "assign", c)
          /\ busy' = c
          /\ missed' = IF InFlight(c) THEN missed \cup {c} ELSE missed
    /\ UNCHANGED <<server, seen, ui, assigned>>

\* The sidebar's x: what is selected stays selected.
deleteCollection ==
    /\ ~ui.menu /\ ui.create = "none" /\ MayAsk
    /\ \E c \in seen : Ask("delete", c)
    /\ UNCHANGED <<server, seen, ui, assigned, busy, missed>>

openCreate ==
    /\ ui.create = "none"
    /\ ui' = [ui EXCEPT !.create = IF ui.menu THEN "menu" ELSE "sidebar", !.failed = FALSE]
    /\ UNCHANGED <<server, seen, assigned, busy, reqs, missed>>
closeCreate ==
    /\ ui.create # "none"
    /\ ui' = [ui EXCEPT !.create = "none", !.failed = FALSE]
    /\ reqs' = Unmount({"create"})
    /\ UNCHANGED <<server, seen, assigned, busy, missed>>

\* A name that is not blank; the button stays enabled while a request is under way.
handleSubmit ==
    /\ ui.create # "none" /\ MayAsk
    /\ Ask("create", None)
    /\ UNCHANGED <<server, seen, ui, assigned, busy, missed>>

-----------------------------------------------------------------------------
(* The server.                                                             *)

\* A collection that is gone is ErrNotFound; the rest is idempotent.
Result(op, c) ==
    CASE op = "assign" -> [server EXCEPT !.filed = @ \cup {c}]
      [] op = "remove" -> [server EXCEPT !.filed = @ \ {c}]
      [] op = "delete" -> [cols |-> server.cols \ {c}, filed |-> server.filed \ {c}]
      [] OTHER         -> [server EXCEPT !.cols = @ \cup {CHOOSE n \in Cols : n \notin @}]
Fits(op, c) == IF op = "create" THEN Cols \ server.cols # {} ELSE c \in server.cols

Serve(k) ==
    /\ reqs[k].at = "sent"
    /\ \/ /\ Fits(reqs[k].op, reqs[k].col)
          /\ server' = Result(reqs[k].op, reqs[k].col)
          /\ \/ reqs' = [reqs EXCEPT ![k].at = "done"] /\ missed' = missed \cup (server.cols \ server'.cols)
             \/ reqs' = [reqs EXCEPT ![k].at = "lost"] /\ missed' = missed \cup ({reqs[k].col} \ {None})
       \/ reqs' = [reqs EXCEPT ![k].at = "lost"] /\ UNCHANGED <<server, missed>>
    /\ UNCHANGED <<seen, ui, assigned, busy>>

\* Another device files the recipe, or takes it out.
FiledElsewhere ==
    /\ MayAsk
    /\ \E c \in server.cols : /\ \E op \in Ops : server' = Result(op, c) /\ server' # server
                              /\ missed' = missed \cup {c}
    /\ reqs' = Append(reqs, [op |-> "other", col |-> None, at |-> "over", live |-> FALSE])
    /\ UNCHANGED <<seen, ui, assigned, busy>>

\* The callbacks of mutate run for the latest call of its hook, while its
\* component is there.
Heard(k) == reqs[k].live /\ \A j \in k + 1..Len(reqs) : reqs[j].op # reqs[k].op

ToggleAnswered(k) ==
    /\ reqs[k].op \in Ops /\ reqs[k].at \in {"done", "lost"}
    /\ reqs' = [reqs EXCEPT ![k].at = "over"]
    /\ IF Heard(k)
       THEN /\ assigned' = IF reqs[k].at = "lost" THEN assigned
                           ELSE IF reqs[k].op = "assign" THEN assigned \cup {reqs[k].col} ELSE assigned \ {reqs[k].col}
            /\ busy' = None
       ELSE UNCHANGED <<assigned, busy>>
    /\ missed' = IF Heard(k) THEN missed ELSE missed \cup {reqs[k].col}
    /\ UNCHANGED <<server, seen, ui>>

\* A created collection closes its dialog, a failure shows there.
CreateAnswered(k) ==
    /\ reqs[k].op = "create" /\ reqs[k].at \in {"done", "lost"}
    /\ reqs' = [reqs EXCEPT ![k].at = "over"]
    /\ ui' = IF ~Heard(k) THEN ui
             ELSE IF reqs[k].at = "done" THEN [ui EXCEPT !.create = "none", !.failed = FALSE]
             ELSE [ui EXCEPT !.failed = TRUE]
    /\ UNCHANGED <<server, seen, assigned, busy, missed>>
DeleteAnswered(k) ==
    /\ reqs[k].op = "delete" /\ reqs[k].at \in {"done", "lost"}
    /\ reqs' = [reqs EXCEPT ![k].at = "over"]
    /\ UNCHANGED <<server, seen, ui, assigned, busy, missed>>

useRecipeCollections ==
    /\ seen # server.cols /\ seen' = server.cols
    /\ UNCHANGED <<server, ui, assigned, busy, reqs, missed>>

Dialogs == onSelect \/ openMenu \/ closeMenu \/ toggle \/ deleteCollection \/ openCreate \/ closeCreate \/ handleSubmit
Answered(k) == ToggleAnswered(k) \/ CreateAnswered(k) \/ DeleteAnswered(k)
ShelfNext == Dialogs \/ FiledElsewhere \/ useRecipeCollections \/ \E k \in DOMAIN reqs : Serve(k) \/ Answered(k)

\* Every request ends: the client's fetch has a timeout.
ReqStep(k) == k \in DOMAIN reqs /\ (Serve(k) \/ Answered(k))
ShelfFairness == \A k \in 1..MaxReqs : WF_shelfVars(ReqStep(k))
-----------------------------------------------------------------------------
\* A tick of the menu is true: with no request for it under way, a ticked
\* collection holds the recipe, unless an answer was lost, a request lost
\* its callback to a later call of the same hook, or someone else changed it.
TickedIsFiled == \A c \in assigned : ~InFlight(c) /\ c \notin missed => c \in server.filed

\* No row waits for good: a busy row is released, whatever order the answers of
\* several toggles come in.
BusyEnds == busy # None ~> busy = None
=============================================================================
