---------------------------- MODULE ShoppingTrip ----------------------------
(***************************************************************************)
(* The shopping list: generating it on the server from the meal plan       *)
(* (service/shopping.go, one statement at a time), and ticking its items   *)
(* on the shopping screen (ShoppingList in screens/recipes.tsx), which     *)
(* shows a tick before the server has it, and is seeded from React Query's *)
(* copy of the list, whatever the server has by then.                      *)
(***************************************************************************)
EXTENDS Integers, Sequences, FiniteSets

CONSTANTS NItems,  \* ingredients of the plan, items of every list
          MaxRuns  \* bound on runs of Generate and ticks together

VARIABLES lists,   \* shopping lists, in the order of created_at
          runs,    \* runs of Generate; the first is this device's when mine
          trip,    \* the device: its page, and the button of the meal plan page
          cache,   \* copies of the current list: the one held, the answer that is coming
          shown,   \* categories of the screen: a list and its items' done flags
          ticks,   \* calls of the toggle mutation, and ticks made elsewhere, in order
          excused  \* items whose tick met something the screen does not follow

shopVars == <<lists, runs, trip, cache, shown, ticks, excused>>

Items == 1..NItems
Weeks == {1, 2}
MayRun == Len(runs) + Len(ticks) < MaxRuns
Empty == [i \in Items |-> "absent"]
Marks == {"absent", "open", "done"}
Done(list) == {i \in Items : list.item[i] = "done"}
Mark(done) == IF done THEN "done" ELSE "open"
NoCopy == [list |-> 0, week |-> 0, item |-> Empty]
CopyOf(n) == [list |-> n, week |-> lists[n].week, item |-> lists[n].item]

ShopTypeOK ==
    /\ \A n \in DOMAIN lists : lists[n] \in [week : Weeks, active : BOOLEAN, item : [Items -> Marks]]
    /\ \A g \in DOMAIN runs :
          runs[g] \in [old : 0..Len(lists), kept : SUBSET Items, new : 0..Len(lists), mine : BOOLEAN,
                       quiet : BOOLEAN, at : {"read", "off", "new", "fill", "done", "failed", "over"}]
    /\ trip \in [page : {"meals", "shopping"}, gen : {"idle", "loading", "ok", "error"},
                 idles : Nat, leaves : BOOLEAN, week : Weeks]
    /\ cache \in [{"held", "coming"} -> [list : 0..Len(lists), week : {0} \cup Weeks, item : [Items -> Marks]]]
    /\ shown \in [list : 0..Len(lists), week : {0} \cup Weeks, item : [Items -> Marks]]
    /\ \A k \in DOMAIN ticks : ticks[k] \in [item : Items, list : DOMAIN lists, done : BOOLEAN,
                                             at : {"sent", "done", "lost", "over"}, live : BOOLEAN]
    /\ Len(runs) + Len(ticks) <= MaxRuns /\ excused \subseteq Items

ShopInit ==
    /\ lists = <<[week |-> 1, active |-> TRUE, item |-> [i \in Items |-> "open"]]>>
    /\ runs = <<>>
    /\ \E w \in Weeks : trip = [page |-> "shopping", gen |-> "idle", idles |-> 0, leaves |-> FALSE, week |-> w]
    /\ shown = CopyOf(1) /\ cache = [c \in {"held", "coming"} |-> IF c = "held" THEN CopyOf(1) ELSE NoCopy]
    /\ ticks = <<>> /\ excused = {}

-----------------------------------------------------------------------------
(* The server.                                                             *)

\* GetActiveShoppingList: the newest, 0 when none.
Active == {n \in DOMAIN lists : lists[n].active}
GetCurrent == IF Active = {} THEN 0 ELSE CHOOSE n \in Active : \A o \in Active : o <= n

Disturb(g) == [h \in DOMAIN runs |-> IF h # g /\ runs[h].at \notin {"done", "failed", "over"}
                                     THEN [runs[h] EXCEPT !.quiet = FALSE] ELSE runs[h]]

Started(mine) ==
    /\ MayRun
    /\ runs' = Append(Disturb(0), [old |-> 0, kept |-> {}, new |-> 0, mine |-> mine, at |-> "read",
                                   quiet |-> \A h \in DOMAIN runs : runs[h].at \in {"done", "failed", "over"}])

Ended(g, how) == [old |-> 0, kept |-> {}, new |-> 0, mine |-> runs[g].mine, quiet |-> TRUE,
                  at |-> IF runs[g].mine THEN how ELSE "over"]

\* The completed items are carried over when the active list is for the same dates.
ReadCompleted(g) ==
    /\ runs[g].at = "read"
    /\ LET old == GetCurrent
           same == old # 0 /\ lists[old].week = trip.week
       IN  runs' = [runs EXCEPT ![g].at = "off", ![g].old = IF same THEN old ELSE 0,
                                ![g].kept = IF same THEN Done(lists[old]) ELSE {}]
    /\ UNCHANGED <<lists, trip, cache, shown, ticks, excused>>

DeactivateShoppingLists(g) ==
    /\ runs[g].at = "off"
    /\ lists' = [n \in DOMAIN lists |-> [lists[n] EXCEPT !.active = FALSE]]
    /\ runs' = [Disturb(g) EXCEPT ![g].at = "new"]
    /\ UNCHANGED <<trip, cache, shown, ticks, excused>>

CreateShoppingList(g) ==
    /\ runs[g].at = "new"
    /\ lists' = Append(lists, [week |-> trip.week, active |-> TRUE, item |-> Empty])
    /\ runs' = [Disturb(g) EXCEPT ![g].at = "fill", ![g].new = Len(lists) + 1]
    /\ UNCHANGED <<trip, cache, shown, ticks, excused>>

\* One insert per item, in order.
Missing(g) == {i \in Items : lists[runs[g].new].item[i] = "absent"}

\* Mutant: the ticks read are not carried over.
InsertShoppingListItemOpen(g) ==
    /\ runs[g].at = "fill" /\ Missing(g) # {}
    /\ LET i == CHOOSE j \in Missing(g) : \A o \in Missing(g) : j <= o
       IN  /\ lists' = [lists EXCEPT ![runs[g].new].item[i] = "open"]
           /\ runs' = [runs EXCEPT ![g] = IF i = NItems THEN Ended(g, "done") ELSE @]
    /\ UNCHANGED <<trip, cache, shown, ticks, excused>>

InsertShoppingListItem(g) ==
    /\ runs[g].at = "fill" /\ Missing(g) # {}
    /\ LET i == CHOOSE j \in Missing(g) : \A o \in Missing(g) : j <= o
       IN  /\ lists' = [lists EXCEPT ![runs[g].new].item[i] = Mark(i \in runs[g].kept)]
           /\ runs' = [runs EXCEPT ![g] = IF i = NItems THEN Ended(g, "done") ELSE @]
    /\ UNCHANGED <<trip, cache, shown, ticks, excused>>

\* Any statement may fail, and what was done before it stays done.
GenerateFails(g) ==
    /\ runs[g].at \in {"read", "off", "new", "fill"}
    /\ runs' = [runs EXCEPT ![g] = Ended(g, "failed")]
    /\ UNCHANGED <<lists, trip, cache, shown, ticks, excused>>

GenerateElsewhere ==
    /\ Started(FALSE)
    /\ UNCHANGED <<lists, trip, cache, shown, ticks, excused>>

-----------------------------------------------------------------------------
(* The copy of the list, and the pages.                                    *)

\* A call for the item is under way, or its flag in the copy is not the list's any more.
InFlight(i) == \E k \in DOMAIN ticks : ticks[k].item = i /\ ticks[k].at # "over"
Behind(copy) == {i \in Items : copy.item[i] # "absent" /\ copy.item[i] # lists[copy.list].item[i]}

Seed(copy) ==
    /\ shown' = copy
    /\ excused' = {i \in Items : InFlight(i)} \cup Behind(copy)

\* GET /v1/shopping/current for any screen of the device; it fails while there is none.
FetchRead ==
    /\ cache["coming"].list = 0 /\ GetCurrent # 0
    /\ cache' = [cache EXCEPT !["coming"] = CopyOf(GetCurrent)]
    /\ UNCHANGED <<lists, runs, trip, shown, ticks, excused>>

\* Its answer replaces the copy held, and the screen's items only when it is for another week.
FetchArrives ==
    /\ cache["coming"].list # 0
    /\ cache' = [c \in {"held", "coming"} |-> IF c = "held" THEN cache["coming"] ELSE NoCopy]
    /\ IF trip.page = "shopping" /\ cache["coming"].week # shown.week THEN Seed(cache["coming"])
       ELSE UNCHANGED <<shown, excused>>
    /\ UNCHANGED <<lists, runs, trip, ticks>>

\* Or it is lost.
NoneComing == cache' = [cache EXCEPT !["coming"] = NoCopy]
FetchLost ==
    /\ cache["coming"].list # 0
    /\ NoneComing
    /\ UNCHANGED <<lists, runs, trip, shown, ticks, excused>>

\* A page that opens takes the copy held; the callbacks of a screen left behind are not called.
Abandon == [k \in DOMAIN ticks |-> [ticks[k] EXCEPT !.live = FALSE]]
OpenShopping(copy) == Seed(copy) /\ ticks' = Abandon

handleGenerateShopping ==
    /\ trip.page = "meals" /\ trip.gen # "loading"
    /\ Started(TRUE)
    /\ trip' = [trip EXCEPT !.gen = "loading"]
    /\ UNCHANGED <<lists, cache, shown, ticks, excused>>

\* On success, too, a screen that shows the copy fetches it again.
GenerateAnswered(g) ==
    /\ runs[g].mine /\ runs[g].at \in {"done", "failed"}
    /\ runs' = [runs EXCEPT ![g].at = "over"]
    /\ trip' = IF trip.page # "meals" THEN trip
               ELSE IF runs[g].at = "done" THEN [trip EXCEPT !.gen = "ok", !.leaves = TRUE]
               ELSE [trip EXCEPT !.gen = "error", !.idles = @ + 1]
    /\ IF runs[g].at = "done" /\ trip.page = "shopping" THEN NoneComing ELSE UNCHANGED cache
    /\ UNCHANGED <<lists, shown, ticks, excused>>

\* setTimeout(() => setGenerateStatus("idle")): also of an earlier failure.
GenerateIdles ==
    /\ trip.idles > 0
    /\ trip' = [trip EXCEPT !.idles = @ - 1, !.gen = "idle"]
    /\ UNCHANGED <<lists, runs, cache, shown, ticks, excused>>

\* window.location.href = "/shopping": from wherever the user is by then.  The
\* other timers and the copies go with the document.
GenerateLeaves ==
    /\ trip.leaves
    /\ trip' = [trip EXCEPT !.page = "shopping", !.gen = "idle", !.idles = 0, !.leaves = FALSE]
    /\ cache' = [c \in {"held", "coming"} |-> NoCopy] /\ OpenShopping(NoCopy)
    /\ UNCHANGED <<lists, runs>>

Navigate ==
    /\ trip' = [trip EXCEPT !.page = IF @ = "meals" THEN "shopping" ELSE "meals", !.gen = "idle", !.idles = 0]
    /\ IF trip.page = "meals" THEN OpenShopping(cache["held"])
       ELSE ticks' = Abandon /\ UNCHANGED <<shown, excused>>
    /\ UNCHANGED <<lists, runs, cache>>

-----------------------------------------------------------------------------
(* The shopping screen.                                                    *)

\* The items drawn, each with its click handler.
ItemShown(i) == trip.page = "shopping" /\ shown.item[i] # "absent"

\* Two calls for one item may arrive in either order: that item is excused.
toggle ==
    /\ MayRun
    /\ \E i \in Items :
          /\ ItemShown(i)
          /\ shown' = [shown EXCEPT !.item[i] = Mark(@ = "open")]
          /\ ticks' = Append(ticks, [item |-> i, list |-> shown.list, done |-> shown.item[i] = "open",
                                     at |-> "sent", live |-> TRUE])
          /\ excused' = IF InFlight(i) THEN excused \cup {i} ELSE excused
    /\ UNCHANGED <<lists, runs, trip, cache>>

\* By id, also in a list no longer active; or the request fails, or its answer is lost.
UpdateItemCompleted(k) ==
    /\ ticks[k].at = "sent"
    /\ \E applied, heard \in BOOLEAN :
          /\ heard => applied
          /\ lists' = IF applied THEN [lists EXCEPT ![ticks[k].list].item[ticks[k].item] = Mark(ticks[k].done)] ELSE lists
          /\ ticks' = [ticks EXCEPT ![k].at = IF heard THEN "done" ELSE "lost"]
          /\ excused' = IF applied /\ ~heard THEN excused \cup {ticks[k].item} ELSE excused
    /\ runs' = Disturb(0)
    /\ UNCHANGED <<trip, cache, shown>>

\* The callbacks of mutate run for the latest call of a mounted screen only.
Last(k) == ticks[k].live /\ \A j \in DOMAIN ticks : j > k => ~ticks[j].live

\* Mutant: no rollback on an error.
ToggleAnsweredKeeps(k) ==
    /\ ticks[k].at \in {"done", "lost"}
    /\ ticks' = [ticks EXCEPT ![k].at = "over"]
    /\ excused' = IF ticks[k].at = "lost" /\ ~Last(k) THEN excused \cup {ticks[k].item} ELSE excused
    /\ UNCHANGED <<lists, runs, trip, cache, shown>>

\* onError puts the old flag back at the item's position, if an item is there; on success
\* the screen's copy is fetched again, instead of a fetch under way.
ToggleAnswered(k) ==
    /\ ticks[k].at \in {"done", "lost"}
    /\ ticks' = [ticks EXCEPT ![k].at = "over"]
    /\ IF ticks[k].at = "lost" /\ Last(k)
       THEN /\ shown' = [shown EXCEPT !.item[ticks[k].item] = IF @ = "absent" THEN @ ELSE Mark(~ticks[k].done)]
            /\ UNCHANGED excused
       ELSE /\ excused' = IF ticks[k].at = "lost" THEN excused \cup {ticks[k].item} ELSE excused
            /\ UNCHANGED shown
    /\ IF ticks[k].at = "done" /\ trip.page = "shopping" THEN NoneComing ELSE UNCHANGED cache
    /\ UNCHANGED <<lists, runs, trip>>

\* Someone else ticks an item of the list in use.
TickElsewhere ==
    /\ MayRun /\ GetCurrent # 0
    /\ \E i \in Items :
          /\ lists[GetCurrent].item[i] # "absent"
          /\ lists' = [lists EXCEPT ![GetCurrent].item[i] = Mark(@ = "open")]
          /\ excused' = excused \cup {i}
          /\ ticks' = Append(ticks, [item |-> i, list |-> GetCurrent, done |-> lists[GetCurrent].item[i] = "open",
                                     at |-> "over", live |-> FALSE])
    /\ runs' = Disturb(0)
    /\ UNCHANGED <<trip, cache, shown>>

Generating(g) == ReadCompleted(g) \/ DeactivateShoppingLists(g) \/ CreateShoppingList(g) \/ InsertShoppingListItem(g)
                    \/ GenerateFails(g)
Ticking == toggle \/ TickElsewhere \/ \E k \in DOMAIN ticks : UpdateItemCompleted(k) \/ ToggleAnswered(k)
Pages == handleGenerateShopping \/ GenerateIdles \/ GenerateLeaves \/ Navigate
Copying == FetchRead \/ FetchArrives \/ FetchLost
ShopNext ==
    \/ Pages \/ Copying \/ Ticking \/ GenerateElsewhere
    \/ \E g \in DOMAIN runs : Generating(g) \/ GenerateAnswered(g)

\* The server works through a request and answers it.
RunStep(g) == g \in DOMAIN runs /\ (Generating(g) \/ GenerateAnswered(g))
ShopFairness == \A g \in 1..MaxRuns : WF_shopVars(RunStep(g))
-----------------------------------------------------------------------------
\* The screen stays true to the server once it is: an item with no call under way
\* has on the screen the flag it has in the list shown, unless the copy the screen
\* was seeded from was behind for it already, its calls overlapped, an answer was
\* lost, or someone else ticked it (toggle with its rollback, and the seeding).
TicksAgree ==
    \A i \in Items : ~InFlight(i) /\ i \notin excused /\ shown.item[i] # "absent"
                        => shown.item[i] = lists[shown.list].item[i]

\* Generating a list again for the same week keeps what was ticked: unless a
\* tick or another run came in between (Generate has no transaction), the new
\* list has the flags of the one it replaced.
RegenerateKeepsTicks ==
    [][\A g \in DOMAIN runs : /\ runs[g].at = "fill" /\ lists'[runs[g].new].item[NItems] # "absent"
                              /\ runs[g].quiet /\ runs[g].old # 0
                              => Done(lists'[runs[g].new]) = Done(lists[runs[g].old])]_shopVars

\* The Generate button comes back from "Generating...", also after a failure.
GenerateSettles == trip.gen = "loading" ~> trip.gen # "loading"
=============================================================================
